---- MODULE Spec2Model ----
(***************************************************************************)
(* A model of jot's note repository: the Note Session (noteStore.ts and    *)
(* the auto-save logic of MarkdownEditor.tsx) and the path guard and       *)
(* repository mutators of lib/fileSystem.ts.                               *)
(*                                                                         *)
(* Spec      the Note Session: loadNote, setContent/handleChange,          *)
(*           saveNote, the auto-save timer and the flush-on-change effect. *)
(*                                                                         *)
(* JavaScript runs one handler at a time; a handler runs until it returns  *)
(* or reaches an await.  Every action below is one such run.  A zustand    *)
(* set() is followed by a React render and its effects before any other    *)
(* event is handled, so the render is part of the action that calls set(). *)
(***************************************************************************)
EXTENDS Integers, Sequences, FiniteSets, TLC

(***************************************************************************)
(* Bounds of the model.                                                    *)
(***************************************************************************)
\* Distinct texts the user types into one note (besides its stored text).
NumTexts == 1
\* Storage writes in flight at once.
MaxWrites == 1

(***************************************************************************)
(* Program constants.                                                      *)
(***************************************************************************)
\* noteStore.ts:123  .slice(0, 10)
RecentCap == 10

(***************************************************************************)
(* Values of the Note Session.                                             *)
(***************************************************************************)
\* The notes the user opens and edits.
Notes == {"/r/a.md", "/r/b.md"}
\* currentNote: string | null
NoNote == "null"

\* A note body.  Texts are opaque to the session; each carries the note it
\* was stored in or typed for, so that a write of one note's text to another
\* note's path is visible.  rev 0 is the text stored at start.
Body(n, k) == [note |-> n, rev |-> k]
Bodies(n) == {Body(n, k) : k \in 0..NumTexts}
\* content: ""  (the store's initial content)
EmptyContent == Body(NoNote, 0)

\* Paths of notes opened in earlier runs of the app, persisted in
\* notes-meta.json under "recentNotes".
OldRecents ==
  << "/r/o1.md", "/r/o2.md", "/r/o3.md", "/r/o4.md", "/r/o5.md",
     "/r/o6.md", "/r/o7.md", "/r/o8.md", "/r/o9.md", "/r/o10.md" >>

VARIABLES
  \* noteStore.ts state
  currentNote, content, isDirty, isLoading, isSaving, recentNotes, favorites,
  \* storage: the text of each note file, and the notes-meta.json store
  disk, metaStore,
  \* MarkdownEditor.tsx: refs and the values captured by the last effect
  pendingSaveRef, saveTimeoutRef, effectCaptured,
  \* calls suspended at an await
  loads, writes,
  \* history: the outcome of the last handler run, where the state keeps no
  \* other trace of it ("-" otherwise), the storage writes it issued, and
  \* the path of the last loadNote call
  lastOp, issued, requested,
  \* the path guard applied to one name: the name, and what the guard made
  \* of it
  nameIn, nameOut,
  \* the notes folder in storage, the mutator calls suspended at an await,
  \* the number of calls made, the last call that returned and the last
  \* storage operation performed
  fs, calls, nCalls, returned, fsOp,
  \* noteStore.ts files: the tree installed in the store; the tree rebuilds
  \* (refreshFiles) suspended at an await, and the number of them started
  files, scans, nScans,
  \* noteStore.ts searchQuery, searchResults, isSearching; the searchNotes
  \* calls suspended at an await and the number of requests made; history:
  \* the last request, with what it found once it has completed
  searchQuery, searchResults, isSearching, searches, nSearches, latest,
  \* noteStore.ts backlinks, and the findBacklinks calls that have not
  \* completed
  backlinks, links, nLinks,
  \* history: the name of the note the Backlinks panel last called
  \* findBacklinks for, which is the open note's
  openName,
  \* the toggleFavorite call completed last: its path, the favorites it
  \* found, and whether the call before it toggled the same path
  lastToggle,
  \* the handlers of the file tree past their mutator call, and the toasts
  \* shown
  handlers, toasts,
  \* the toggleFavorite calls made step by step, and how far the
  \* loadFavorites of the start has come
  toggles, nToggles, favLoad

storeVars == << currentNote, content, isDirty, isLoading, isSaving,
                recentNotes, favorites >>
editorVars == << pendingSaveRef, saveTimeoutRef, effectCaptured >>
sessionVars == << storeVars, disk, metaStore, editorVars, loads, writes,
                  lastOp, issued, requested >>
nameVars == << nameIn, nameOut >>
fsVars == << fs, calls, nCalls, returned, fsOp >>
treeVars == << files, scans, nScans >>
searchVars == << searchQuery, searchResults, isSearching, searches,
                 nSearches, latest >>
linkVars == << backlinks, links, nLinks, openName >>
favVars == << lastToggle >>
handlerVars == << handlers, toasts >>
raceVars == << toggles, nToggles, favLoad >>
otherVars == << searchVars, linkVars, favVars, handlerVars, raceVars >>
vars == << sessionVars, nameVars, fsVars, treeVars, otherVars >>

\* What the actions of one part leave unchanged.
notSessionVars == << nameVars, fsVars, treeVars, otherVars >>
notNameVars == << sessionVars, fsVars, treeVars, otherVars >>
notFsVars == << sessionVars, nameVars, treeVars, otherVars >>
notTreeVars == << sessionVars, nameVars, fsVars, otherVars >>
otherThanSearchVars == << linkVars, favVars, handlerVars, raceVars >>
otherThanLinkVars == << searchVars, favVars, handlerVars, raceVars >>
otherThanFavVars == << searchVars, linkVars, handlerVars, raceVars >>
otherThanHandlerVars == << searchVars, linkVars, favVars, raceVars >>
otherThanRaceVars == << searchVars, linkVars, handlerVars >>
notSearchVars == << sessionVars, nameVars, fsVars, treeVars,
                    otherThanSearchVars >>
notLinkVars == << sessionVars, nameVars, fsVars, treeVars,
                  otherThanLinkVars >>


(***************************************************************************)
(* Strings.  A name or a path is a sequence of characters, so that         *)
(* includes, startsWith, lastIndexOf and replace are computed as           *)
(* JavaScript computes them.                                               *)
(***************************************************************************)
\* s.startsWith(pre)
StartsWith(s, pre) ==
  Len(pre) <= Len(s) /\ SubSeq(s, 1, Len(pre)) = pre

\* s.endsWith(suf)
EndsWith(s, suf) ==
  Len(suf) <= Len(s) /\ SubSeq(s, Len(s) - Len(suf) + 1, Len(s)) = suf

\* s.includes(sub)
Includes(s, sub) ==
  \E i \in 1..(Len(s) - Len(sub) + 1) : SubSeq(s, i, i + Len(sub) - 1) = sub

\* s.lastIndexOf(ch) + 1: the last position of ch in s, counted from 1; 0 if
\* ch is not in s (JavaScript's -1).
LastIndexOf(s, ch) ==
  IF \E i \in 1..Len(s) : s[i] = ch
  THEN CHOOSE i \in 1..Len(s) : s[i] = ch /\ \A j \in (i + 1)..Len(s) : s[j] # ch
  ELSE 0

\* String.prototype.trim's white space.
WhiteSpace == {" ", "\t", "\n", "\r"}

RECURSIVE TrimStart(_)
TrimStart(s) ==
  IF s # << >> /\ Head(s) \in WhiteSpace THEN TrimStart(Tail(s)) ELSE s

RECURSIVE TrimEnd(_)
TrimEnd(s) ==
  IF s # << >> /\ s[Len(s)] \in WhiteSpace
  THEN TrimEnd(SubSeq(s, 1, Len(s) - 1))
  ELSE s

\* s.trim()
Trim(s) == TrimEnd(TrimStart(s))

(***************************************************************************)
(* The path guard: fileSystem.ts:18-38                                     *)
(***************************************************************************)
\* fileSystem.ts:25 and :36  the characters of [<>:"|?*\x00-\x1f]; of the
\* control characters the model holds tab, line feed and carriage return.
Reserved == {"<", ">", ":", "\"", "|", "?", "*", "\t", "\n", "\r"}

\* fileSystem.ts:35  the characters of [/\\]
Separators == {"/", "\\"}

\* fileSystem.ts:18-27
isValidName(name) ==
  /\ ~(name = << >> \/ Trim(name) = << >>)
  /\ ~(\/ Includes(name, << ".", "." >>)
       \/ Includes(name, << "/" >>)
       \/ Includes(name, << "\\" >>))
  /\ ~StartsWith(name, << "." >>)
  /\ ~(\E i \in 1..Len(name) : name[i] \in Reserved)

\* fileSystem.ts:34  .replace(/\.\./g, ""): one pass from the left that
\* drops each pair of dots it meets.
RECURSIVE RemoveDotDot(_)
RemoveDotDot(s) ==
  IF Len(s) < 2 THEN s
  ELSE IF s[1] = "." /\ s[2] = "."
       THEN RemoveDotDot(SubSeq(s, 3, Len(s)))
       ELSE << s[1] >> \o RemoveDotDot(Tail(s))

\* fileSystem.ts:35-36  .replace(/[...]/g, ""): drop every character of the
\* class.
RemoveChars(s, class) == SelectSeq(s, LAMBDA ch : ch \notin class)

\* fileSystem.ts:32-38
sanitizeFileName(name) ==
  Trim(RemoveChars(RemoveChars(RemoveDotDot(name), Separators), Reserved))

\* No name is under the guard, and no mutator is called: the value these
\* variables keep in the specifications that do not use them.
NameIdle == nameIn = << >> /\ nameOut = << "-" >>

(***************************************************************************)
(* Storage: the notes folder as the @tauri-apps/plugin-fs calls of         *)
(* fileSystem.ts:1-9 see and change it.  fs maps each existing path to     *)
(* what is there: a directory, or a file and who wrote it.                 *)
(***************************************************************************)
Slash == << "/" >>

\* `${dir}/${name}`
Join(dir, name) == dir \o Slash \o name

\* path.substring(0, path.lastIndexOf("/"))
ParentOf(path) == SubSeq(path, 1, LastIndexOf(path, "/") - 1)

\* path.substring(path.lastIndexOf("/") + 1)
BaseName(path) == SubSeq(path, LastIndexOf(path, "/") + 1, Len(path))

\* What a file holds: the template createNote writes for a name, a text of
\* the user, or the bytes a caller passed.
NoData == [kind |-> "none", of |-> << >>]
Dir == [dir |-> TRUE, data |-> NoData]
File(data) == [dir |-> FALSE, data |-> data]

\* The paths below p.
Under(f, p) == {q \in DOMAIN f : StartsWith(q, p \o Slash)}
IsDir(f, p) == p \in DOMAIN f /\ f[p].dir

\* exists(p)
FsExists(f, p) == p \in DOMAIN f

\* mkdir(p), not recursive: rejects if p exists or its parent is no
\* directory.
MkdirOk(f, p) == p \notin DOMAIN f /\ IsDir(f, ParentOf(p))
FsMkdir(f, p) == [q \in DOMAIN f \cup {p} |-> IF q = p THEN Dir ELSE f[q]]

\* writeTextFile(p, data), writeFile(p, data): creates the file or replaces
\* its content; rejects if the parent is no directory or p is a directory.
WriteOk(f, p) == IsDir(f, ParentOf(p)) /\ ~IsDir(f, p)
FsWrite(f, p, data) ==
  [q \in DOMAIN f \cup {p} |-> IF q = p THEN File(data) ELSE f[q]]

\* remove(p, { recursive: true }): rejects if nothing is at p.
RemoveOk(f, p) == p \in DOMAIN f
FsRemove(f, p) == [q \in DOMAIN f \ ({p} \cup Under(f, p)) |-> f[q]]

\* rename(old, new): moves the item and what is below it.  An item at new is
\* replaced when both are files, or both directories and the one at new is
\* empty; the call rejects if nothing is at old, if new's parent is no
\* directory, if new is below old, or if the item at new cannot be replaced.
RenameOk(f, old, new) ==
  /\ old \in DOMAIN f
  /\ IsDir(f, ParentOf(new))
  /\ ~StartsWith(new, old \o Slash)
  /\ (new \in DOMAIN f /\ new # old) =>
       (f[new].dir = f[old].dir /\ Under(f, new) = {})
FsRename(f, old, new) ==
  IF old = new THEN f
  ELSE LET moved == {old} \cup Under(f, old)
           gone == {new} \cup Under(f, new)
           kept == DOMAIN f \ (moved \cup gone)
           Target(q) == new \o SubSeq(q, Len(old) + 1, Len(q))
       IN  [q \in kept \cup {Target(m) : m \in moved} |->
              IF q \in kept THEN f[q]
              ELSE f[CHOOSE m \in moved : Target(m) = q]]

\* What a mutator returns: null / false, or a path / true.
Null == [ok |-> FALSE, value |-> << >>]
Some(value) == [ok |-> TRUE, value |-> value]

\* No call has returned; no storage operation has been performed.
NoReturn == [id |-> 0, fn |-> "none", a |-> << >>, b |-> << >>,
             result |-> Null, ops |-> 0, made |-> {}]
NoFsOp == [by |-> "none", op |-> "none", path |-> << >>, to |-> << >>,
           ok |-> FALSE, replaced |-> FALSE]
FsOp(by, op, path, to, ok, replaced) ==
  [by |-> by, op |-> op, path |-> path, to |-> to, ok |-> ok,
   replaced |-> replaced]

FsIdle ==
  /\ fs = << >>
  /\ calls = {}
  /\ nCalls = 0
  /\ returned = NoReturn
  /\ fsOp = NoFsOp

\* noteStore.ts:73  files: [], and no rebuild started.
TreeIdle ==
  /\ files = << >>
  /\ scans = {}
  /\ nScans = 0

\* No request made: noteStore.ts:80-82  searchQuery: "", searchResults: [],
\* isSearching: false.
NoRequest == [kind |-> "none", id |-> 0, results |-> << >>]
SearchIdle ==
  /\ searchQuery = << >>
  /\ searchResults = << >>
  /\ isSearching = FALSE
  /\ searches = {}
  /\ nSearches = 0
  /\ latest = NoRequest

\* noteStore.ts:83  backlinks: []
LinkIdle ==
  /\ backlinks = << >>
  /\ links = {}
  /\ nLinks = 0
  /\ openName = << >>

NoToggle == [path |-> << >>, before |-> << >>, again |-> FALSE]

FavIdle == lastToggle = NoToggle

HandlerIdle ==
  /\ handlers = {}
  /\ toasts = << >>

\* No toggleFavorite is under way and loadFavorites has completed.
RaceIdle ==
  /\ toggles = {}
  /\ nToggles = 0
  /\ favLoad = "done"

OtherIdle == SearchIdle /\ LinkIdle /\ FavIdle /\ HandlerIdle /\ RaceIdle

(***************************************************************************)
(* Helpers of the Note Session.                                            *)
(***************************************************************************)
Min(a, b) == IF a < b THEN a ELSE b

\* noteStore.ts:123  [path, ...recentNotes.filter((p) => p !== path)].slice(0, 10)
RecentUpdatedUncut(path, recent) ==
  << path >> \o SelectSeq(recent, LAMBDA p : p # path)
RecentUpdated(path, recent) ==
  LET moved == << path >> \o SelectSeq(recent, LAMBDA p : p # path)
  IN  SubSeq(moved, 1, Min(RecentCap, Len(moved)))

\* saveTimeoutRef: no timer armed, or the timer armed by handleChange.  The
\* timer's callback closes over handleChange's currentNote.
NoTimer == [armed |-> FALSE, note |-> NoNote]
Timer(n) == [armed |-> TRUE, note |-> n]

\* pendingSaveRef.current: null, or { path, content }
NoPending == [path |-> NoNote, content |-> EmptyContent]

\* A storage write suspended at its await: which code issued it, and its
\* arguments.
Write(kind, path, body) == [kind |-> kind, path |-> path, content |-> body]

\* The values the flush effect closes over: MarkdownEditor.tsx:329-331.
Captured(n, c, d) == [path |-> n, content |-> c, isDirty |-> d]

\* MarkdownEditor.tsx:347  the effect's dependency list [currentNote,
\* content, isDirty]: React runs the previous effect's cleanup, and the effect
\* again, when one of them differs from the last render's.
DepsChanged(cap, n, c, d) == cap # Captured(n, c, d)

\* MarkdownEditor.tsx:335-338  the cleanup clears the pending timer.
CleanupTimerKept(t) == t
CleanupTimer(t) == NoTimer

\* MarkdownEditor.tsx:341-345  the cleanup writes the captured content to the
\* captured path if the captured session was dirty.
CleanupWritesLive(cap, liveNote) ==
  IF cap.isDirty /\ cap.path # NoNote
  THEN {Write("flush", liveNote, cap.content)}
  ELSE {}
CleanupWrites(cap, liveNote) ==
  IF cap.isDirty /\ cap.path # NoNote
  THEN {Write("flush", cap.path, cap.content)}
  ELSE {}

\* MarkdownEditor.tsx:54  if (pending && pending.path === currentNote), with
\* currentNote the value handleChange closed over when it armed the timer.
TimerGuard(pending, closureNote) ==
  pending # NoPending /\ pending.path = closureNote

\* noteStore.ts:143  if (!currentNote || !isDirty) return;
SaveNoteGuard(note, dirty) == note # NoNote /\ dirty

\* noteStore.ts:145-150  isDirty after saveNote's write has settled.
DirtyAfterSaveAlways(ok, dirty) == FALSE
DirtyAfterSave(ok, dirty) == IF ok THEN FALSE ELSE dirty

\* The render that follows a store change to (n, c, d), with timer t armed and
\* writes w in flight when it starts: the flush effect's cleanup and re-run.
Render(n, c, d, t, w) ==
  IF DepsChanged(effectCaptured, n, c, d)
  THEN /\ saveTimeoutRef' = CleanupTimer(t)
       /\ issued' = CleanupWrites(effectCaptured, n)
       /\ writes' = w \cup issued'
       /\ effectCaptured' = Captured(n, c, d)
  ELSE /\ saveTimeoutRef' = t
       /\ issued' = {}
       /\ writes' = w
       /\ UNCHANGED effectCaptured

\* The model holds at most MaxWrites writes in flight.
WritesFit == Cardinality(writes') <= MaxWrites

(***************************************************************************)
(* Init: the app has started.  The note store is as constructed           *)
(* (noteStore.ts:72-85) and loadFavorites (noteStore.ts:176-185), called   *)
(* when App mounts, has set recentNotes and favorites from the meta store; *)
(* the editor's refs are as created (MarkdownEditor.tsx:23-27) and its     *)
(* flush effect has run once.                                              *)
(***************************************************************************)
PersistedRecents == { SubSeq(OldRecents, 1, RecentCap - 1) }

InitSession ==
  /\ currentNote = NoNote
  /\ content = EmptyContent
  /\ isDirty = FALSE
  /\ isLoading = FALSE
  /\ isSaving = FALSE
  /\ \E r \in PersistedRecents :
       /\ recentNotes = r
       /\ metaStore = [recentNotes |-> r, favorites |-> << >>]
  /\ favorites = << >>
  /\ disk = [n \in Notes |-> Body(n, 0)]
  /\ pendingSaveRef = NoPending
  /\ saveTimeoutRef = NoTimer
  /\ effectCaptured = Captured(NoNote, EmptyContent, FALSE)
  /\ loads = {}
  /\ requested = NoNote
  /\ writes = {}
  /\ lastOp = "init"
  /\ issued = {}

\* The Note Session with nothing open and persisted: the value its variables
\* keep in the specifications that are not about it.
InitSessionIdle ==
  /\ currentNote = NoNote
  /\ content = EmptyContent
  /\ isDirty = FALSE
  /\ isLoading = FALSE
  /\ isSaving = FALSE
  /\ recentNotes = << >>
  /\ metaStore = [recentNotes |-> << >>, favorites |-> << >>]
  /\ favorites = << >>
  /\ disk = [n \in Notes |-> Body(n, 0)]
  /\ pendingSaveRef = NoPending
  /\ saveTimeoutRef = NoTimer
  /\ effectCaptured = Captured(NoNote, EmptyContent, FALSE)
  /\ loads = {}
  /\ requested = NoNote
  /\ writes = {}
  /\ lastOp = "init"
  /\ issued = {}

(***************************************************************************)
(* loadNote(path): noteStore.ts:116-139                                    *)
(***************************************************************************)
\* :117  set({ isLoading: true }) and the call of readTextFile
LoadNoteStart(p) ==
  /\ isLoading' = TRUE
  /\ loads' = loads \cup {[path |-> p, pc |-> "read", content |-> EmptyContent,
                           updated |-> << >>]}
  /\ lastOp' = "-"
  /\ issued' = {}
  /\ requested' = p
  /\ UNCHANGED << currentNote, content, isDirty, isSaving, recentNotes,
                  favorites, disk, metaStore, editorVars, writes >>
  /\ UNCHANGED notSessionVars

\* :119-125  readTextFile settles.  Resolved: the text read, the updated
\* recents computed from the store, and the call of store.set.  Rejected:
\* the catch, :136-137.
LoadNoteRead(l, ok) ==
  /\ l \in loads
  /\ l.pc = "read"
  /\ IF ok
     THEN /\ loads' = (loads \ {l}) \cup
                      {[l EXCEPT !.pc = "persist", !.content = disk[l.path],
                                 !.updated = RecentUpdated(l.path, recentNotes)]}
          /\ lastOp' = "-"
          /\ UNCHANGED isLoading
     ELSE /\ loads' = loads \ {l}
          /\ isLoading' = FALSE
          /\ lastOp' = "loadNoteReadFailed"
  /\ issued' = {}
  /\ UNCHANGED << currentNote, content, isDirty, isSaving, recentNotes,
                  favorites, disk, metaStore, editorVars, writes, requested >>
  /\ UNCHANGED notSessionVars

\* :125-134  store.set and store.save settle, then the set() that opens the
\* note, and the render that follows it.
LoadNoteFinish(l) ==
  /\ l \in loads
  /\ l.pc = "persist"
  /\ loads' = loads \ {l}
  /\ metaStore' = [metaStore EXCEPT !.recentNotes = l.updated]
  /\ currentNote' = l.path
  /\ content' = l.content
  /\ isDirty' = FALSE
  /\ isLoading' = FALSE
  /\ recentNotes' = l.updated
  /\ Render(l.path, l.content, FALSE, saveTimeoutRef, writes)
  /\ WritesFit
  /\ lastOp' = "loadNoteFinish"
  /\ UNCHANGED << isSaving, favorites, disk, pendingSaveRef, requested >>
  /\ UNCHANGED notSessionVars

\* :125-126, :135-137  store.set or store.save rejects: the catch.  A reject
\* of save comes after set has changed the meta store.
LoadNotePersistFailed(l, afterSet) ==
  /\ l \in loads
  /\ l.pc = "persist"
  /\ loads' = loads \ {l}
  /\ metaStore' = IF afterSet
                  THEN [metaStore EXCEPT !.recentNotes = l.updated]
                  ELSE metaStore
  /\ isLoading' = FALSE
  /\ lastOp' = "loadNotePersistFailed"
  /\ issued' = {}
  /\ UNCHANGED << currentNote, content, isDirty, isSaving, recentNotes,
                  favorites, disk, editorVars, writes, requested >>
  /\ UNCHANGED notSessionVars

(***************************************************************************)
(* handleChange(value): MarkdownEditor.tsx:39-68, with setContent,         *)
(* noteStore.ts:103-106.  The editor is shown only while a note is open.   *)
(***************************************************************************)
HandleChange(value) ==
  /\ currentNote # NoNote
  /\ content' = value
  /\ isDirty' = (currentNote # NoNote)
  /\ pendingSaveRef' = [path |-> currentNote, content |-> value]
  /\ Render(currentNote, value, currentNote # NoNote, Timer(currentNote), writes)
  /\ WritesFit
  /\ lastOp' = "-"
  /\ UNCHANGED << currentNote, isLoading, isSaving, recentNotes, favorites,
                  disk, metaStore, loads, requested >>
  /\ UNCHANGED notSessionVars

(***************************************************************************)
(* The auto-save timer's callback: MarkdownEditor.tsx:52-65                *)
(***************************************************************************)
\* :53-57  the timer elapses: the guard, setIsSaving(true), writeTextFile.
TimerFire ==
  /\ saveTimeoutRef.armed
  /\ saveTimeoutRef' = NoTimer
  /\ IF TimerGuard(pendingSaveRef, saveTimeoutRef.note)
     THEN /\ isSaving' = TRUE
          /\ issued' = {Write("auto", pendingSaveRef.path, pendingSaveRef.content)}
          /\ lastOp' = "-"
     ELSE /\ UNCHANGED isSaving
          /\ issued' = {}
          /\ lastOp' = "timerDiscarded"
  /\ writes' = writes \cup issued'
  /\ WritesFit
  /\ UNCHANGED << currentNote, content, isDirty, isLoading, recentNotes,
                  favorites, disk, metaStore, pendingSaveRef, effectCaptured,
                  loads, requested >>
  /\ UNCHANGED notSessionVars

\* :57-63  the auto-save's write settles: setIsDirty(false) if it resolved,
\* setIsSaving(false) either way.
AutoSaveSettle(w, ok) ==
  /\ w \in writes
  /\ w.kind = "auto"
  /\ isSaving' = FALSE
  /\ IF ok
     THEN /\ disk' = [disk EXCEPT ![w.path] = w.content]
          /\ isDirty' = FALSE
          /\ Render(currentNote, content, FALSE, saveTimeoutRef, writes \ {w})
          /\ lastOp' = "-"
     ELSE /\ writes' = writes \ {w}
          /\ issued' = {}
          /\ lastOp' = "-"
          /\ UNCHANGED << disk, isDirty, saveTimeoutRef, effectCaptured >>
  /\ UNCHANGED << currentNote, content, isLoading, recentNotes, favorites,
                  metaStore, pendingSaveRef, loads, requested >>
  /\ UNCHANGED notSessionVars

(***************************************************************************)
(* saveNote(): noteStore.ts:141-151                                        *)
(***************************************************************************)
\* :142-146  the guard and the call of writeTextFile.
SaveNoteStart ==
  /\ IF SaveNoteGuard(currentNote, isDirty)
     THEN /\ issued' = {Write("save", currentNote, content)}
          /\ lastOp' = "-"
     ELSE /\ issued' = {}
          /\ lastOp' = "saveNoteSkipped"
  /\ writes' = writes \cup issued'
  /\ WritesFit
  /\ UNCHANGED << storeVars, disk, metaStore, editorVars, loads, requested >>
  /\ UNCHANGED notSessionVars

\* :146-150  the write settles: set({ isDirty: false }) if it resolved, the
\* catch if it rejected.
SaveNoteSettle(w, ok) ==
  /\ w \in writes
  /\ w.kind = "save"
  /\ disk' = IF ok THEN [disk EXCEPT ![w.path] = w.content] ELSE disk
  /\ isDirty' = DirtyAfterSave(ok, isDirty)
  /\ Render(currentNote, content, isDirty', saveTimeoutRef, writes \ {w})
  /\ lastOp' = IF ok THEN "saveNoteDone" ELSE "saveNoteFailed"
  /\ UNCHANGED << currentNote, content, isLoading, isSaving, recentNotes,
                  favorites, metaStore, pendingSaveRef, loads, requested >>
  /\ UNCHANGED notSessionVars

(***************************************************************************)
(* The flush issued by the effect's cleanup settles:                       *)
(* MarkdownEditor.tsx:342-344.  A reject is logged.                        *)
(***************************************************************************)
FlushSettle(w, ok) ==
  /\ w \in writes
  /\ w.kind = "flush"
  /\ writes' = writes \ {w}
  /\ disk' = IF ok THEN [disk EXCEPT ![w.path] = w.content] ELSE disk
  /\ lastOp' = "-"
  /\ issued' = {}
  /\ UNCHANGED << storeVars, metaStore, editorVars, loads, requested >>
  /\ UNCHANGED notSessionVars

(***************************************************************************)
(* The Note Session's specification.                                       *)
(***************************************************************************)
Init == InitSession /\ NameIdle /\ FsIdle /\ TreeIdle /\ OtherIdle

Next ==
  \* the Note Session is explored with one loadNote in flight at a time
  \/ \E p \in Notes : loads = {} /\ LoadNoteStart(p)
  \/ \E l \in loads, ok \in BOOLEAN : LoadNoteRead(l, ok)
  \/ \E l \in loads : LoadNoteFinish(l)
  \/ \E l \in loads, afterSet \in BOOLEAN : LoadNotePersistFailed(l, afterSet)
  \/ \E value \in Bodies(currentNote) : HandleChange(value)
  \/ TimerFire
  \/ \E w \in writes, ok \in BOOLEAN : AutoSaveSettle(w, ok)
  \/ SaveNoteStart
  \/ \E w \in writes, ok \in BOOLEAN : SaveNoteSettle(w, ok)
  \/ \E w \in writes, ok \in BOOLEAN : FlushSettle(w, ok)

Spec == Init /\ [][Next]_vars


(***************************************************************************)
(* Claims about the Note Session, checked under Spec.                      *)
(***************************************************************************)
NoDuplicates(seq) ==
  \A i, j \in 1..Len(seq) : seq[i] = seq[j] => i = j

\* C1: if note A is open and dirty with content c and loadNote(B) completes
\* for another note B, the step that opens B issues a write of exactly c to
\* A's path; and no write in flight and no stored text carries to a note's
\* path a text typed for another note.
C1_FlushOnSwitch ==
  /\ [](/\ \A w \in writes : w.content.note = w.path
        /\ \A n \in Notes : disk[n].note = n)
  /\ [][(/\ currentNote \in Notes
         /\ isDirty
         /\ currentNote' \in Notes
         /\ currentNote' # currentNote)
        => Write("flush", currentNote, content) \in issued']_vars

\* C1's case: the open note has just changed and the step flushed the edited
\* text of the note that was open before.
C1_Witness ==
  /\ lastOp = "loadNoteFinish"
  /\ \E w \in issued :
       /\ w.kind = "flush"
       /\ w.path \in Notes \ {currentNote}
       /\ w.content.rev > 0

\* C2: the auto-save timer writes only to the note that is open when it
\* elapses, and what it writes is the pending { path, content } unit; a timer
\* that finds another path pending changes nothing.
C2_StaleTimerNeverWrites ==
  /\ [][\A w \in issued' :
          w.kind = "auto" =>
            /\ w.path = currentNote
            /\ w = Write("auto", pendingSaveRef.path, pendingSaveRef.content)]_vars
  /\ [][lastOp' = "timerDiscarded" =>
          UNCHANGED << storeVars, disk, writes >>]_vars

\* C2's case: the timer has elapsed and issued its write.
C2_Witness ==
  \E w \in issued : w.kind = "auto" /\ w.path = currentNote

\* C3: an edit of the open note is saved after a quiet period: the step that
\* handles the edit leaves the save of the edited text pending, as the armed
\* auto-save timer or a write of that text in flight (nothing else writes it
\* if the user does nothing more).
C3_EditArmsAutoSave ==
  [][\A value \in Bodies(currentNote) :
       HandleChange(value) =>
         \/ saveTimeoutRef'.armed
         \/ \E w \in writes' : w.path = currentNote /\ w.content = value]_vars

\* C4: in the Loaded state (a note open, not dirty, no load and no write in
\* flight) the content in memory is the stored text of the open note.
C4_LoadedMirrorsStorage ==
  (currentNote \in Notes /\ ~isDirty /\ loads = {} /\ writes = {})
    => content = disk[currentNote]

\* C5: saveNote issues a write only when a note is open and dirty, and then
\* of the content in memory to the open path; it skips only when no note is
\* open or the session is not dirty, changing nothing; when its write
\* succeeds the text is stored and isDirty is cleared; when its write fails
\* currentNote, content and isDirty are left as they are.
C5_SaveNote ==
  /\ [][\A w \in issued' :
          w.kind = "save" =>
            /\ currentNote # NoNote
            /\ isDirty
            /\ w = Write("save", currentNote, content)]_vars
  /\ [][lastOp' = "saveNoteSkipped" =>
          /\ currentNote = NoNote \/ ~isDirty
          /\ UNCHANGED << storeVars, disk, writes >>]_vars
  /\ [][lastOp' = "saveNoteDone" =>
          /\ ~isDirty'
          /\ \E w \in writes \ writes' :
               w.kind = "save" /\ disk' = [disk EXCEPT ![w.path] = w.content]]_vars
  /\ [][lastOp' = "saveNoteFailed" =>
          UNCHANGED << currentNote, content, isDirty, disk >>]_vars

\* C5's case: saveNote's write has failed on a dirty session.
C5_Witness ==
  lastOp = "saveNoteFailed" /\ currentNote \in Notes /\ isDirty

\* C6: recentNotes never holds more than 10 paths nor a path twice; a
\* loadNote(p) that completes leaves p open and first in recentNotes; a
\* loadNote whose read fails leaves currentNote, content, isDirty and
\* recentNotes as they are.
C6_Recents ==
  /\ [](Len(recentNotes) <= RecentCap /\ NoDuplicates(recentNotes))
  /\ [][lastOp' = "loadNoteFinish" =>
          \E l \in loads \ loads' :
            /\ currentNote' = l.path
            /\ Len(recentNotes') > 0
            /\ recentNotes'[1] = l.path]_vars
  /\ [][lastOp' = "loadNoteReadFailed" =>
          UNCHANGED << currentNote, content, isDirty, recentNotes >>]_vars

\* C6's case: a loadNote has completed on a full list that already held the
\* note, which is now first.
C6_Witness ==
  /\ lastOp = "loadNoteFinish"
  /\ Len(recentNotes) = RecentCap
  /\ recentNotes[1] = currentNote
  /\ \A n \in Notes : \E i \in 1..Len(recentNotes) : recentNotes[i] = n


(***************************************************************************)
(* The mutators of fileSystem.ts.  A call is a record in calls from its    *)
(* first await to its return, pc naming the await it is suspended at; a    *)
(* call rejected before its first await returns in the step that makes it. *)
(* Each storage call resolves or rejects (ok: the I/O error no state       *)
(* excludes), and rejects where the storage semantics say so.              *)
(***************************************************************************)
\* Bound: the mutator calls made in one behaviour.
MaxCalls == 2

Root == << "/", "r" >>
FolderA == Join(Root, << "a" >>)
FolderAB == Join(Root, << "a", "b" >>)
FolderAS == Join(FolderA, << "s" >>)
MdExt == << ".", "m", "d" >>
NoteN == Join(Root, << "n" >> \o MdExt)

\* The names a user types or a pasted file carries: an ordinary one, a
\* hidden one and a blank one.
UserNames == { << "n" >>, << ".", "h" >>, << " " >> }

Digits == << "0", "1", "2", "3", "4", "5", "6", "7", "8", "9" >>

\* `${counter}`
RECURSIVE Decimal(_)
Decimal(n) ==
  IF n < 10 THEN << Digits[n + 1] >>
  ELSE Decimal(n \div 10) \o << Digits[(n % 10) + 1] >>

\* The text of the user's k-th save, the bytes of the k-th call.
UserText(k) == [kind |-> "user", of |-> Decimal(k)]
Bytes(k) == [kind |-> "bytes", of |-> Decimal(k)]

\* s.replace(sub, ""): the first occurrence of sub removed.
RemoveFirst(s, sub) ==
  LET at == {i \in 1..(Len(s) - Len(sub) + 1) :
               SubSeq(s, i, i + Len(sub) - 1) = sub}
  IN  IF at = {} THEN s
      ELSE LET i == CHOOSE k \in at : \A j \in at : k <= j
           IN  SubSeq(s, 1, i - 1) \o SubSeq(s, i + Len(sub), Len(s))

\* fileSystem.ts:103  `# ${sanitizedName.replace(".md", "")}\n\n`
Template(sanitizedName) ==
  [kind |-> "template", of |-> RemoveFirst(sanitizedName, MdExt)]

\* The notes folder when the mutators start: two sibling folders of which
\* one name is a prefix of the other, a folder inside the first, and a note.
InitStorage ==
  LET dirs == {Root, FolderA, FolderAB, FolderAS}
      notes == {NoteN}
  IN  [q \in dirs \cup notes |-> IF q \in dirs THEN Dir ELSE File(UserText(0))]

\* What a call that threw to its caller would leave there.
Thrown == [ok |-> FALSE, value |-> << "E", "r", "r", "o", "r" >>]

\* fileSystem.ts:105-108, 163-166, 185-188, 195-198, 218-221, 261-264,
\* 303-306, 345-348  the catch of a mutator: the error is logged and null
\* (false by deleteItem) is returned.
Caught == Null

Call(id, fn, a, b, pc, name, path) ==
  [id |-> id, fn |-> fn, a |-> a, b |-> b, pc |-> pc, name |-> name,
   path |-> path, final |-> name, counter |-> 1, ops |-> 0, made |-> {}]

Returned(c, result, ops) ==
  [id |-> c.id, fn |-> c.fn, a |-> c.a, b |-> c.b, result |-> result,
   ops |-> ops, made |-> c.made]

\* The call is made: it is suspended at its first await, or has returned
\* null before it.
Enter(c, rejected) ==
  /\ nCalls < MaxCalls
  /\ nCalls' = nCalls + 1
  /\ IF rejected
     THEN /\ returned' = Returned(c, Null, 0)
          /\ UNCHANGED calls
     ELSE /\ calls' = calls \cup {c}
          /\ UNCHANGED returned
  /\ UNCHANGED << fs, fsOp, notFsVars >>

\* The await of c settles: c goes on to pc next, or returns.
Goto(c, next) ==
  /\ calls' = (calls \ {c}) \cup {[c EXCEPT !.pc = next, !.ops = @ + 1]}
  /\ UNCHANGED returned

\* The await of c settles having made the folder at path: c goes on to pc
\* next.
GotoMade(c, next, path) ==
  /\ calls' = (calls \ {c}) \cup
                {[c EXCEPT !.pc = next, !.ops = @ + 1,
                           !.made = @ \cup {path}]}
  /\ UNCHANGED returned

Return(c, result) ==
  /\ calls' = calls \ {c}
  /\ returned' = Returned(c, result, c.ops + 1)

\* fileSystem.ts:95
NoteFileName(name) == IF EndsWith(name, MdExt) THEN name ELSE name \o MdExt

\* fileSystem.ts:84-96
CreateNoteCall(folder, name) ==
  LET sanitizedName == sanitizeFileName(name)
      c == Call(nCalls + 1, "createNote", folder, name, "exists",
                sanitizedName, Join(folder, NoteFileName(sanitizedName)))
  IN  Enter(c, ~isValidName(sanitizedName))

\* fileSystem.ts:99-102
CreateNoteExists(c, ok) ==
  /\ c \in calls /\ c.fn = "createNote" /\ c.pc = "exists"
  /\ fsOp' = FsOp(c.fn, "exists", c.path, << >>, ok, FALSE)
  /\ IF ok /\ ~FsExists(fs, c.path) THEN Goto(c, "write")
     ELSE Return(c, Caught)
  /\ UNCHANGED << fs, nCalls, notFsVars >>

\* fileSystem.ts:103-108
CreateNoteWrite(c, ok) ==
  /\ c \in calls /\ c.fn = "createNote" /\ c.pc = "write"
  /\ LET done == ok /\ WriteOk(fs, c.path)
     IN  /\ fsOp' = FsOp(c.fn, "write", c.path, << >>, done,
                         FsExists(fs, c.path))
         /\ fs' = IF done THEN FsWrite(fs, c.path, Template(c.name)) ELSE fs
         /\ Return(c, IF done THEN Some(c.path) ELSE Caught)
  /\ UNCHANGED << nCalls, notFsVars >>

\* fileSystem.ts:169-180
CreateFolderCall(parentPath, name) ==
  LET sanitizedName == sanitizeFileName(name)
      c == Call(nCalls + 1, "createFolder", parentPath, name, "mkdir",
                sanitizedName, Join(parentPath, sanitizedName))
  IN  Enter(c, ~isValidName(sanitizedName))

\* fileSystem.ts:182-188
CreateFolderMkdir(c, ok) ==
  /\ c \in calls /\ c.fn = "createFolder" /\ c.pc = "mkdir"
  /\ LET done == ok /\ MkdirOk(fs, c.path)
     IN  /\ fsOp' = FsOp(c.fn, "mkdir", c.path, << >>, done, FALSE)
         /\ fs' = IF done THEN FsMkdir(fs, c.path) ELSE fs
         /\ Return(c, IF done THEN Some(c.path) ELSE Caught)
  /\ UNCHANGED << nCalls, notFsVars >>

\* fileSystem.ts:191-192
DeleteItemCall(path) ==
  Enter(Call(nCalls + 1, "deleteItem", path, << >>, "remove", << >>, path),
        FALSE)

\* fileSystem.ts:193-198
DeleteItemRemove(c, ok) ==
  /\ c \in calls /\ c.fn = "deleteItem" /\ c.pc = "remove"
  /\ LET done == ok /\ RemoveOk(fs, c.path)
     IN  /\ fsOp' = FsOp(c.fn, "remove", c.path, << >>, done, FALSE)
         /\ fs' = IF done THEN FsRemove(fs, c.path) ELSE fs
         /\ Return(c, IF done THEN Some(<< >>) ELSE Caught)
  /\ UNCHANGED << nCalls, notFsVars >>

\* fileSystem.ts:201-213
RenameItemCall(oldPath, newName) ==
  LET sanitizedName == sanitizeFileName(newName)
      c == Call(nCalls + 1, "renameItem", oldPath, newName, "rename",
                sanitizedName, Join(ParentOf(oldPath), sanitizedName))
  IN  Enter(c, ~isValidName(sanitizedName))

\* fileSystem.ts:215-221
RenameItemRename(c, ok) ==
  /\ c \in calls /\ c.fn = "renameItem" /\ c.pc = "rename"
  /\ LET done == ok /\ RenameOk(fs, c.a, c.path)
     IN  /\ fsOp' = FsOp(c.fn, "rename", c.a, c.path, done,
                         FsExists(fs, c.path))
         /\ fs' = IF done THEN FsRename(fs, c.a, c.path) ELSE fs
         /\ Return(c, IF done THEN Some(c.path) ELSE Caught)
  /\ UNCHANGED << nCalls, notFsVars >>

\* A guard of moveItem that rejects every target of which the source is a
\* string prefix.
MoveIntoSelfByPrefix(sourcePath, targetFolder) ==
  StartsWith(targetFolder, sourcePath)

\* fileSystem.ts:240
MoveIntoSelf(sourcePath, targetFolder) ==
  \/ targetFolder = sourcePath
  \/ StartsWith(targetFolder, sourcePath \o Slash)

\* fileSystem.ts:224-249
MoveItemCall(sourcePath, targetFolder) ==
  LET itemName == BaseName(sourcePath)
      newPath == Join(targetFolder, itemName)
      c == Call(nCalls + 1, "moveItem", sourcePath, targetFolder, "exists",
                itemName, newPath)
  IN  Enter(c, \/ ~isValidName(itemName)
               \/ MoveIntoSelf(sourcePath, targetFolder)
               \/ newPath = sourcePath)

\* fileSystem.ts:253-257
MoveItemExists(c, ok) ==
  /\ c \in calls /\ c.fn = "moveItem" /\ c.pc = "exists"
  /\ fsOp' = FsOp(c.fn, "exists", c.path, << >>, ok, FALSE)
  /\ IF ~ok THEN Return(c, Caught)
     ELSE IF FsExists(fs, c.path) THEN Return(c, Null)
     ELSE Goto(c, "rename")
  /\ UNCHANGED << fs, nCalls, notFsVars >>

\* fileSystem.ts:259-264
MoveItemRename(c, ok) ==
  /\ c \in calls /\ c.fn = "moveItem" /\ c.pc = "rename"
  /\ LET done == ok /\ RenameOk(fs, c.a, c.path)
     IN  /\ fsOp' = FsOp(c.fn, "rename", c.a, c.path, done,
                         FsExists(fs, c.path))
         /\ fs' = IF done THEN FsRename(fs, c.a, c.path) ELSE fs
         /\ Return(c, IF done THEN Some(c.path) ELSE Caught)
  /\ UNCHANGED << nCalls, notFsVars >>

\* fileSystem.ts:279, 321
AssetFolderName(fn) ==
  IF fn = "saveImage" THEN << "a", "s", "s", "e", "t", "s" >>
  ELSE << "a", "t", "t", "a", "c", "h", "m", "e", "n", "t", "s" >>

\* fileSystem.ts:292-294, 334-336
NumberedName(name, counter) ==
  LET dot == LastIndexOf(name, ".")
      ext == IF dot > 1 THEN SubSeq(name, dot, Len(name)) ELSE << >>
      base == IF dot > 1 THEN SubSeq(name, 1, dot - 1) ELSE name
  IN  base \o << "-" >> \o Decimal(counter) \o ext

\* fileSystem.ts:267-279, 309-321
SaveFileCall(fn, notesFolder, fileName) ==
  LET sanitizedFileName == sanitizeFileName(fileName)
      c == Call(nCalls + 1, fn, notesFolder, fileName, "folderExists",
                sanitizedFileName, Join(notesFolder, AssetFolderName(fn)))
  IN  Enter(c, sanitizedFileName = << >>)

\* fileSystem.ts:283-284, 325-326
SaveFileFolderExists(c, ok) ==
  /\ c \in calls /\ c.fn \in {"saveImage", "saveAttachment"}
  /\ c.pc = "folderExists"
  /\ fsOp' = FsOp(c.fn, "exists", c.path, << >>, ok, FALSE)
  /\ IF ~ok THEN Return(c, Caught)
     ELSE IF FsExists(fs, c.path) THEN Goto(c, "nameExists")
     ELSE Goto(c, "mkdir")
  /\ UNCHANGED << fs, nCalls, notFsVars >>

\* fileSystem.ts:285, 327
SaveFileMkdir(c, ok) ==
  /\ c \in calls /\ c.fn \in {"saveImage", "saveAttachment"}
  /\ c.pc = "mkdir"
  /\ LET done == ok /\ MkdirOk(fs, c.path)
     IN  /\ fsOp' = FsOp(c.fn, "mkdir", c.path, << >>, done, FALSE)
         /\ fs' = IF done THEN FsMkdir(fs, c.path) ELSE fs
         /\ IF done THEN GotoMade(c, "nameExists", c.path)
            ELSE Return(c, Caught)
  /\ UNCHANGED << nCalls, notFsVars >>

\* fileSystem.ts:289-296, 331-338: one test of the while loop.
SaveFileNameExists(c, ok) ==
  /\ c \in calls /\ c.fn \in {"saveImage", "saveAttachment"}
  /\ c.pc = "nameExists"
  /\ fsOp' = FsOp(c.fn, "exists", Join(c.path, c.final), << >>, ok, FALSE)
  /\ IF ~ok THEN Return(c, Caught)
     ELSE IF FsExists(fs, Join(c.path, c.final))
     THEN /\ calls' = (calls \ {c}) \cup
                        {[c EXCEPT !.final = NumberedName(c.name, c.counter),
                                   !.counter = @ + 1, !.ops = @ + 1]}
          /\ UNCHANGED returned
     ELSE Goto(c, "write")
  /\ UNCHANGED << fs, nCalls, notFsVars >>

\* fileSystem.ts:298-306, 340-348
SaveFileWrite(c, ok) ==
  /\ c \in calls /\ c.fn \in {"saveImage", "saveAttachment"}
  /\ c.pc = "write"
  /\ LET filePath == Join(c.path, c.final)
         done == ok /\ WriteOk(fs, filePath)
     IN  /\ fsOp' = FsOp(c.fn, "write", filePath, << >>, done,
                         FsExists(fs, filePath))
         /\ fs' = IF done THEN FsWrite(fs, filePath, Bytes(c.id)) ELSE fs
         /\ Return(c, IF done THEN Some(Join(AssetFolderName(c.fn), c.final))
                      ELSE Caught)
  /\ UNCHANGED << nCalls, notFsVars >>

\* The dates openDailyNote is called for: getFullYear(), getMonth() and
\* getDate() of 1 November 2026.
Dates == {[year |-> 2026, month |-> 10, date |-> 1]}

\* String(n).padStart(2, "0")
PadStart2(str) == IF Len(str) < 2 THEN << "0" >> \o str ELSE str

\* fileSystem.ts:122-125  dateStr
DateStr(date) ==
  Decimal(date.year) \o << "-" >> \o PadStart2(Decimal(date.month + 1))
    \o << "-" >> \o PadStart2(Decimal(date.date))

\* fileSystem.ts:119
DailyFolder(notesFolder) == Join(notesFolder, << "D", "a", "i", "l", "y" >>)

\* fileSystem.ts:126-127
DailyPath(notesFolder, date) ==
  Join(DailyFolder(notesFolder), DateStr(date) \o MdExt)

\* fileSystem.ts:143-159  the template of the date
DailyTemplate(date) == [kind |-> "daily", of |-> DateStr(date)]

\* { path, isNew }
Daily(path, isNew) == [ok |-> TRUE, value |-> path, isNew |-> isNew]

\* fileSystem.ts:115-127
OpenDailyNoteCall(notesFolder, date) ==
  Enter(Call(nCalls + 1, "openDailyNote", notesFolder, date,
             "folderExists", DateStr(date), DailyPath(notesFolder, date)),
        FALSE)

\* fileSystem.ts:131-132
OpenDailyNoteFolderExists(c, ok) ==
  /\ c \in calls /\ c.fn = "openDailyNote" /\ c.pc = "folderExists"
  /\ fsOp' = FsOp(c.fn, "exists", DailyFolder(c.a), << >>, ok, FALSE)
  /\ IF ~ok THEN Return(c, Caught)
     ELSE IF FsExists(fs, DailyFolder(c.a)) THEN Goto(c, "fileExists")
     ELSE Goto(c, "mkdir")
  /\ UNCHANGED << fs, nCalls, notFsVars >>

\* fileSystem.ts:133
OpenDailyNoteMkdir(c, ok) ==
  /\ c \in calls /\ c.fn = "openDailyNote" /\ c.pc = "mkdir"
  /\ LET done == ok /\ MkdirOk(fs, DailyFolder(c.a))
     IN  /\ fsOp' = FsOp(c.fn, "mkdir", DailyFolder(c.a), << >>, done, FALSE)
         /\ fs' = IF done THEN FsMkdir(fs, DailyFolder(c.a)) ELSE fs
         /\ IF done THEN GotoMade(c, "fileExists", DailyFolder(c.a))
            ELSE Return(c, Caught)
  /\ UNCHANGED << nCalls, notFsVars >>

\* fileSystem.ts:137-140
OpenDailyNoteFileExists(c, ok) ==
  /\ c \in calls /\ c.fn = "openDailyNote" /\ c.pc = "fileExists"
  /\ fsOp' = FsOp(c.fn, "exists", c.path, << >>, ok, FALSE)
  /\ IF ~ok THEN Return(c, Caught)
     ELSE IF FsExists(fs, c.path) THEN Return(c, Daily(c.path, FALSE))
     ELSE Goto(c, "write")
  /\ UNCHANGED << fs, nCalls, notFsVars >>

\* fileSystem.ts:143-166
OpenDailyNoteWrite(c, ok) ==
  /\ c \in calls /\ c.fn = "openDailyNote" /\ c.pc = "write"
  /\ LET done == ok /\ WriteOk(fs, c.path)
     IN  /\ fsOp' = FsOp(c.fn, "write", c.path, << >>, done,
                         FsExists(fs, c.path))
         /\ fs' = IF done THEN FsWrite(fs, c.path, DailyTemplate(c.b))
                  ELSE fs
         /\ Return(c, IF done THEN Daily(c.path, TRUE) ELSE Caught)
  /\ UNCHANGED << nCalls, notFsVars >>

\* noteStore.ts:141-146  saveNote, as storage sees it: the open note, dirty,
\* is written.  The note was in the tree, so a file, when it was opened.
SaveNoteCall(path) ==
  /\ FsExists(fs, path) /\ ~IsDir(fs, path)
  /\ Enter(Call(nCalls + 1, "saveNote", path, << >>, "write", << >>, path),
           FALSE)

\* noteStore.ts:146-150
SaveNoteWrite(c, ok) ==
  /\ c \in calls /\ c.fn = "saveNote" /\ c.pc = "write"
  /\ LET done == ok /\ WriteOk(fs, c.path)
     IN  /\ fsOp' = FsOp(c.fn, "write", c.path, << >>, done,
                         FsExists(fs, c.path))
         /\ fs' = IF done THEN FsWrite(fs, c.path, UserText(c.id)) ELSE fs
         /\ Return(c, IF done THEN Some(<< >>) ELSE Null)
  /\ UNCHANGED << nCalls, notFsVars >>

InitFs ==
  /\ fs = InitStorage
  /\ calls = {}
  /\ nCalls = 0
  /\ returned = NoReturn
  /\ fsOp = NoFsOp
  /\ InitSessionIdle
  /\ NameIdle
  /\ TreeIdle
  /\ OtherIdle

FsNext ==
  \/ \E folder \in {Root, FolderA}, name \in UserNames :
       CreateNoteCall(folder, name)
  \/ \E c \in calls, ok \in BOOLEAN : CreateNoteExists(c, ok)
  \/ \E c \in calls, ok \in BOOLEAN : CreateNoteWrite(c, ok)
  \/ \E name \in UserNames : CreateFolderCall(Root, name)
  \/ \E c \in calls, ok \in BOOLEAN : CreateFolderMkdir(c, ok)
  \/ \E path \in {NoteN, FolderA} : DeleteItemCall(path)
  \/ \E c \in calls, ok \in BOOLEAN : DeleteItemRemove(c, ok)
  \/ \E name \in UserNames : RenameItemCall(NoteN, name)
  \/ \E c \in calls, ok \in BOOLEAN : RenameItemRename(c, ok)
  \/ \E sourcePath \in {FolderA, NoteN},
        targetFolder \in {Root, FolderA, FolderAB, FolderAS} :
       MoveItemCall(sourcePath, targetFolder)
  \/ \E c \in calls, ok \in BOOLEAN : MoveItemExists(c, ok)
  \/ \E c \in calls, ok \in BOOLEAN : MoveItemRename(c, ok)
  \/ \E fn \in {"saveImage", "saveAttachment"}, name \in UserNames :
       SaveFileCall(fn, Root, name)
  \/ \E c \in calls, ok \in BOOLEAN : SaveFileFolderExists(c, ok)
  \/ \E c \in calls, ok \in BOOLEAN : SaveFileMkdir(c, ok)
  \/ \E c \in calls, ok \in BOOLEAN : SaveFileNameExists(c, ok)
  \/ \E c \in calls, ok \in BOOLEAN : SaveFileWrite(c, ok)
  \/ \E path \in {NoteN, Join(FolderA, BaseName(NoteN))}
                   \cup {DailyPath(Root, date) : date \in Dates} :
       SaveNoteCall(path)
  \/ \E c \in calls, ok \in BOOLEAN : SaveNoteWrite(c, ok)
  \/ \E date \in Dates : OpenDailyNoteCall(Root, date)
  \/ \E c \in calls, ok \in BOOLEAN : OpenDailyNoteFolderExists(c, ok)
  \/ \E c \in calls, ok \in BOOLEAN : OpenDailyNoteMkdir(c, ok)
  \/ \E c \in calls, ok \in BOOLEAN : OpenDailyNoteFileExists(c, ok)
  \/ \E c \in calls, ok \in BOOLEAN : OpenDailyNoteWrite(c, ok)

FsSpec == InitFs /\ [][FsNext]_vars

(***************************************************************************)
(* The tree: readNotesDirectory (fileSystem.ts:49-82), and refreshFiles    *)
(* and setFiles, which install what it returns in the store.               *)
(***************************************************************************)
\* Bound: the tree rebuilds started in one behaviour.
MaxScans == 1

LowerCase == << "a", "b", "c", "d", "e", "f", "g", "h", "i", "j", "k", "l",
                "m", "n", "o", "p", "q", "r", "s", "t", "u", "v", "w", "x",
                "y", "z" >>
UpperCase == << "A", "B", "C", "D", "E", "F", "G", "H", "I", "J", "K", "L",
                "M", "N", "O", "P", "Q", "R", "S", "T", "U", "V", "W", "X",
                "Y", "Z" >>
\* The other characters of the names used here, in collation order:
\* punctuation before digits, digits before letters.
NonLetters == << "-", ".", "0", "1", "2", "3", "4", "5", "6", "7", "8", "9" >>

IndexIn(seq, x) == CHOOSE i \in 1..Len(seq) : seq[i] = x
Range(seq) == {seq[i] : i \in 1..Len(seq)}

NameLetters == Range(LowerCase) \cup Range(UpperCase) \cup Range(NonLetters)

\* The collation keys of a character as String.prototype.localeCompare
\* compares it: the letter whatever its case first, the case (lower before
\* upper) only between names that are equal otherwise.
Primary ==
  [ch \in NameLetters |->
     IF ch \in Range(LowerCase) THEN Len(NonLetters) + IndexIn(LowerCase, ch)
     ELSE IF ch \in Range(UpperCase)
     THEN Len(NonLetters) + IndexIn(UpperCase, ch)
     ELSE IndexIn(NonLetters, ch)]
Tertiary == [ch \in NameLetters |-> IF ch \in Range(UpperCase) THEN 1 ELSE 0]

\* The UTF-16 code unit order of the same characters.
CodeUnit ==
  [ch \in NameLetters |->
     IF ch \in Range(LowerCase) THEN 100 + IndexIn(LowerCase, ch)
     ELSE IF ch \in Range(UpperCase) THEN 50 + IndexIn(UpperCase, ch)
     ELSE IndexIn(NonLetters, ch)]

\* -1, 0 or 1 as the sequence of numbers x comes before, with or after y.
RECURSIVE CompareKeys(_, _)
CompareKeys(x, y) ==
  IF x = << >> /\ y = << >> THEN 0
  ELSE IF x = << >> THEN -1
  ELSE IF y = << >> THEN 1
  ELSE IF Head(x) < Head(y) THEN -1
  ELSE IF Head(x) > Head(y) THEN 1
  ELSE CompareKeys(Tail(x), Tail(y))

\* x < y ? -1 : x > y ? 1 : 0 on strings
CodeUnitCompare(x, y) ==
  CompareKeys([i \in 1..Len(x) |-> CodeUnit[x[i]]],
              [i \in 1..Len(y) |-> CodeUnit[y[i]]])

\* fileSystem.ts:77  a.name.localeCompare(b.name)
localeCompare(x, y) ==
  LET first == CompareKeys([i \in 1..Len(x) |-> Primary[x[i]]],
                           [i \in 1..Len(y) |-> Primary[y[i]]])
  IN  IF first # 0 THEN first
      ELSE CompareKeys([i \in 1..Len(x) |-> Tertiary[x[i]]],
                       [i \in 1..Len(y) |-> Tertiary[y[i]]])

\* A comparator that orders the names by their code units.
NodeCompareByCodeUnit(a, b) ==
  IF a.isDirectory /\ ~b.isDirectory THEN -1
  ELSE IF ~a.isDirectory /\ b.isDirectory THEN 1
  ELSE CodeUnitCompare(a.name, b.name)

\* fileSystem.ts:74-78  the comparator of nodes.sort
NodeCompare(a, b) ==
  IF a.isDirectory /\ ~b.isDirectory THEN -1
  ELSE IF ~a.isDirectory /\ b.isDirectory THEN 1
  ELSE localeCompare(a.name, b.name)

\* The nodes in the order of their places.
Placed(nodes, place) ==
  [k \in 1..Len(nodes) |-> nodes[CHOOSE i \in 1..Len(nodes) : place[i] = k]]

\* Array.prototype.sort with that comparator, a stable sort: each node goes
\* to the place after the nodes that compare before it and the equal ones
\* that stood before it.
Sort(nodes) ==
  Placed(nodes,
         [i \in 1..Len(nodes) |->
            1 + Cardinality({j \in 1..Len(nodes) :
                               \/ NodeCompare(nodes[j], nodes[i]) < 0
                               \/ /\ j < i
                                  /\ NodeCompare(nodes[j], nodes[i]) = 0})])

\* readDir(path): the entries of the directory, in an order readDir chooses.
Entries(f, path) ==
  {[name |-> BaseName(q), isDirectory |-> f[q].dir] :
     q \in {p \in DOMAIN f : ParentOf(p) = path}}
Orders(S) ==
  {o \in [1..Cardinality(S) -> S] :
     \A i, j \in 1..Cardinality(S) : i # j => o[i] # o[j]}

\* Two of these orders: by the code units of the names, up and down.
Reverse(seq) == [i \in 1..Len(seq) |-> seq[Len(seq) + 1 - i]]
ByCodeUnit(seq) ==
  Placed(seq, [i \in 1..Len(seq) |->
                 1 + Cardinality({j \in 1..Len(seq) :
                      CodeUnitCompare(seq[j].name, seq[i].name) < 0})])
TwoOrders(S) ==
  {ByCodeUnit(CHOOSE o \in Orders(S) : TRUE),
   Reverse(ByCodeUnit(CHOOSE o \in Orders(S) : TRUE))}

\* One call of readNotesDirectory: its path, the entries its loop has still
\* to visit and the nodes it has pushed; pc is "readDir" while it awaits
\* readDir, "loop" after.  A rebuild is the stack of these calls, the last
\* one running, each other one awaiting the call above it for the directory
\* that is first in its entries.
Frame(path) == [path |-> path, pc |-> "readDir", todo |-> << >>,
                nodes |-> << >>]

\* A node for a file that has children: [].
FileNodeWithChildren(path, entry) ==
  [name |-> entry.name, path |-> Join(path, entry.name),
   isDirectory |-> entry.isDirectory, children |-> << >>]

\* fileSystem.ts:57-62, 71
FileNode(path, entry) ==
  [name |-> entry.name, path |-> Join(path, entry.name),
   isDirectory |-> entry.isDirectory]
\* fileSystem.ts:65-66
DirNode(path, entry, children) ==
  [name |-> entry.name, path |-> Join(path, entry.name),
   isDirectory |-> entry.isDirectory, children |-> children]

\* fileSystem.ts:54-82  the loop of the running call up to its next await:
\* it ends with a call for a subdirectory awaiting readDir, or with the tree
\* the first call returns.
RECURSIVE Run(_)
Run(stack) ==
  LET n == Len(stack)
      fr == stack[n]
  IN  IF fr.todo = << >>
      THEN IF n = 1 THEN [done |-> TRUE, tree |-> Sort(fr.nodes)]
           ELSE LET up == stack[n - 1]
                    node == DirNode(up.path, Head(up.todo), Sort(fr.nodes))
                IN  Run(Append(SubSeq(stack, 1, n - 2),
                               [up EXCEPT !.todo = Tail(@),
                                          !.nodes = Append(@, node)]))
      ELSE LET entry == Head(fr.todo)
               skip == [stack EXCEPT ![n].todo = Tail(@)]
           IN  IF StartsWith(entry.name, << "." >>) THEN Run(skip)
               ELSE IF entry.isDirectory
               THEN [done |-> FALSE,
                     stack |-> Append(stack,
                                      Frame(Join(fr.path, entry.name)))]
               ELSE IF ~EndsWith(entry.name, MdExt) THEN Run(skip)
               ELSE Run([stack EXCEPT
                           ![n].todo = Tail(@),
                           ![n].nodes = Append(@, FileNode(fr.path, entry))])

InSeq(seq, x) == \E i \in 1..Len(seq) : seq[i] = x

\* noteStore.ts:89-95
RECURSIVE markFavorites(_, _)
markFavorites(nodes, favs) ==
  [i \in 1..Len(nodes) |->
     LET node == nodes[i]
     IN  IF "children" \in DOMAIN node
         THEN [name |-> node.name, path |-> node.path,
               isDirectory |-> node.isDirectory,
               isFavorite |-> InSeq(favs, node.path),
               children |-> markFavorites(node.children, favs)]
         ELSE [name |-> node.name, path |-> node.path,
               isDirectory |-> node.isDirectory,
               isFavorite |-> InSeq(favs, node.path)]]

\* part_003:25-27  refreshFiles up to the first readDir.
RefreshStart ==
  /\ nScans < MaxScans
  /\ nScans' = nScans + 1
  /\ scans' = scans \cup {[id |-> nScans + 1, stack |-> << Frame(Root) >>]}
  /\ UNCHANGED << files, notTreeVars >>

\* part_003:27-28, noteStore.ts:87-97  the rebuild s goes on as ran says:
\* suspended at its next readDir, or returning the tree that setFiles
\* installs.
Resume(s, ran) ==
  IF ran.done
  THEN /\ scans' = scans \ {s}
       /\ files' = markFavorites(ran.tree, favorites)
  ELSE /\ scans' = (scans \ {s}) \cup {[s EXCEPT !.stack = ran.stack]}
       /\ UNCHANGED files

\* fileSystem.ts:51-81  a readDir of the rebuild settles: with the entries
\* it lists, in the order it lists them, or with [] from the catch if it
\* rejects; the loops run on from there.
ReadDirSettle(s, listed, order) ==
  /\ s \in scans
  /\ listed => IsDir(fs, s.stack[Len(s.stack)].path)
  /\ Resume(s, Run([s.stack EXCEPT ![Len(s.stack)].pc = "loop",
                                   ![Len(s.stack)].todo = order]))
  /\ UNCHANGED << nScans, notTreeVars >>

FolderB == Join(Root, << "B" >>)

\* A notes folder with names of both cases, a hidden file and a file that is
\* no note: /r/a, /r/B, /r/n.md, /r/Z.md, /r/a/.h, /r/a/N.md, /r/a/m.md,
\* /r/B/p.png.
TreeStorage ==
  LET dirs == {Root, FolderA, FolderB}
      notes == {NoteN, Join(Root, << "Z" >> \o MdExt),
                Join(FolderA, << ".", "h" >>),
                Join(FolderA, << "N" >> \o MdExt),
                Join(FolderA, << "m" >> \o MdExt),
                Join(FolderB, << "p", ".", "p", "n", "g" >>)}
  IN  [q \in dirs \cup notes |-> IF q \in dirs THEN Dir ELSE File(UserText(0))]

InitTree ==
  /\ fs \in {InitStorage, TreeStorage}
  /\ calls = {}
  /\ nCalls = 0
  /\ returned = NoReturn
  /\ fsOp = NoFsOp
  /\ files = << >>
  /\ scans = {}
  /\ nScans = 0
  /\ InitSessionIdle
  /\ NameIdle
  /\ OtherIdle

\* The rebuilds, and the mutators the tree's handlers call (part_003:67-84,
\* 350-413) on the items of these folders.
TreeNext ==
  \/ RefreshStart
  \/ \E s \in scans :
       \E order \in TwoOrders(Entries(fs, s.stack[Len(s.stack)].path)) :
         ReadDirSettle(s, TRUE, order)
  \/ \E s \in scans : ReadDirSettle(s, FALSE, << >>)
  \/ CreateNoteCall(FolderA, << "n" >>)
  \/ \E c \in calls, ok \in BOOLEAN : CreateNoteExists(c, ok)
  \/ \E c \in calls, ok \in BOOLEAN : CreateNoteWrite(c, ok)
  \/ CreateFolderCall(Root, << "n" >>)
  \/ \E c \in calls, ok \in BOOLEAN : CreateFolderMkdir(c, ok)
  \/ \E path \in {NoteN, FolderA} : DeleteItemCall(path)
  \/ \E c \in calls, ok \in BOOLEAN : DeleteItemRemove(c, ok)
  \/ RenameItemCall(NoteN, << "O" >> \o MdExt)
  \/ \E c \in calls, ok \in BOOLEAN : RenameItemRename(c, ok)
  \/ \E move \in {<< NoteN, FolderA >>, << FolderA, FolderB >>} :
       MoveItemCall(move[1], move[2])
  \/ \E c \in calls, ok \in BOOLEAN : MoveItemExists(c, ok)
  \/ \E c \in calls, ok \in BOOLEAN : MoveItemRename(c, ok)

TreeSpec == InitTree /\ [][TreeNext]_vars

\* The listings readNotesDirectory is run on: the notes folder above with
\* any of its items left out.
Listings ==
  LET all == DOMAIN TreeStorage
  IN  {[q \in keep |-> TreeStorage[q]] :
         keep \in {K \in SUBSET all :
                     /\ Root \in K
                     /\ \A q \in K \ {Root} : ParentOf(q) \in K}}

InitListing ==
  /\ fs \in Listings
  /\ calls = {}
  /\ nCalls = 0
  /\ returned = NoReturn
  /\ fsOp = NoFsOp
  /\ files = << >>
  /\ scans = {}
  /\ nScans = 0
  /\ InitSessionIdle
  /\ NameIdle
  /\ OtherIdle

\* One rebuild at a time, readDir listing in any order.
ListingNext ==
  \/ scans = {} /\ RefreshStart
  \/ \E s \in scans :
       \E order \in Orders(Entries(fs, s.stack[Len(s.stack)].path)) :
         ReadDirSettle(s, TRUE, order)
  \/ \E s \in scans : ReadDirSettle(s, FALSE, << >>)

ListingSpec == InitListing /\ [][ListingNext]_vars

(***************************************************************************)
(* Search: searchNotes and clearSearch, noteStore.ts:191-244.              *)
(***************************************************************************)
\* Bound: the searchNotes calls made in one behaviour.
MaxSearches == 2

\* query.toLowerCase()
toLowerCase(str) ==
  [i \in 1..Len(str) |->
     IF str[i] \in Range(UpperCase)
     THEN LowerCase[IndexIn(UpperCase, str[i])] ELSE str[i]]

\* readNotesDirectory(path) on storage f with nothing else running.
RECURSIVE TreeOf(_, _)
TreeOf(f, path) ==
  LET shown == {e \in Entries(f, path) :
                  /\ ~StartsWith(e.name, << "." >>)
                  /\ e.isDirectory \/ EndsWith(e.name, MdExt)}
      Node(e) == IF e.isDirectory
                 THEN DirNode(path, e, TreeOf(f, Join(path, e.name)))
                 ELSE FileNode(path, e)
  IN  Sort(ByCodeUnit(CHOOSE o \in Orders({Node(e) : e \in shown}) : TRUE))

\* The tree the store holds of the notes folder TreeStorage.
NoteTree == markFavorites(TreeOf(TreeStorage, Root), << >>)

\* content.split("\n") of the notes of that folder:
\*   /r/a/m.md  "x [[n]]"            /r/a/N.md  "[[n]]", "b"
\*   /r/n.md    "a"                  /r/Z.md    "A b", " [[N]] and more",
\*                                                "a", "ba", "b"
NoteLines ==
  LET m == Join(FolderA, << "m" >> \o MdExt)
      bigN == Join(FolderA, << "N" >> \o MdExt)
      z == Join(Root, << "Z" >> \o MdExt)
  IN  [q \in {m, bigN, NoteN, z} |->
         IF q = m THEN << << "x", " ", "[", "[", "n", "]", "]" >> >>
         ELSE IF q = bigN THEN << << "[", "[", "n", "]", "]" >>, << "b" >> >>
         ELSE IF q = NoteN THEN << << "a" >> >>
         ELSE << << "A", " ", "b" >>, << " ", "[", "[", "N", "]", "]", " ", "a", "n", "d", " ", "m", "o", "r", "e" >>,
              << "a" >>, << "b", "a" >>, << "b" >> >>]

\* The notes of a tree in the order searchInFiles reaches them:
\* noteStore.ts:205-208, 253-256.
RECURSIVE NotesIn(_)
NotesIn(nodes) ==
  IF nodes = << >> THEN << >>
  ELSE LET node == Head(nodes)
       IN  (IF node.isDirectory /\ "children" \in DOMAIN node
            THEN NotesIn(node.children)
            ELSE IF EndsWith(node.path, MdExt) THEN << node >> ELSE << >>)
           \o NotesIn(Tail(nodes))

\* noteStore.ts:211-218  the matching lines of a content
RECURSIVE MatchesFrom(_, _, _)
MatchesFrom(lines, i, searchLower) ==
  IF i > Len(lines) THEN << >>
  ELSE (IF Includes(toLowerCase(lines[i]), searchLower)
        THEN << [line |-> i, text |-> Trim(lines[i])] >>
        ELSE << >>)
       \o MatchesFrom(lines, i + 1, searchLower)

Matches(lines, searchLower) == MatchesFrom(lines, 1, searchLower)

\* The results with what the note adds to them if only its lines count.
WithNoteByLines(results, node, lines, searchLower) ==
  IF MatchesFrom(lines, 1, searchLower) # << >>
  THEN Append(results,
              [path |-> node.path, name |-> node.name,
               matches |-> SubSeq(MatchesFrom(lines, 1, searchLower), 1,
                                  Min(3, Len(MatchesFrom(lines, 1,
                                                         searchLower))))])
  ELSE results

\* noteStore.ts:220-226  the results with what the note adds to them
WithNote(results, node, lines, searchLower) ==
  IF Matches(lines, searchLower) # << >>
       \/ Includes(toLowerCase(node.name), searchLower)
  THEN Append(results,
              [path |-> node.path, name |-> node.name,
               matches |-> SubSeq(Matches(lines, searchLower), 1,
                                  Min(3, Len(Matches(lines, searchLower))))])
  ELSE results

Request(kind, id, results) == [kind |-> kind, id |-> id, results |-> results]

\* noteStore.ts:234-235  the search s has visited every note: its results
\* are set.
SearchDone(s, results) ==
  /\ searchResults' = results
  /\ isSearching' = FALSE
  /\ latest' = IF latest.kind = "search" /\ latest.id = s.id
               THEN Request("search", s.id, results)
               ELSE latest

\* noteStore.ts:191-210  searchNotes(query) up to its first readTextFile
searchNotes(query) ==
  /\ nSearches < MaxSearches
  /\ nSearches' = nSearches + 1
  /\ IF Trim(query) = << >>
     THEN /\ searchResults' = << >>
          /\ isSearching' = FALSE
          /\ latest' = Request("blank", nSearches + 1, << >>)
          /\ UNCHANGED << searchQuery, searches >>
     ELSE LET s == [id |-> nSearches + 1, query |-> query,
                    todo |-> NotesIn(files), results |-> << >>,
                    seen |-> << >>]
          IN  /\ searchQuery' = query
              /\ IF s.todo = << >>
                 THEN /\ searchResults' = << >>
                      /\ isSearching' = FALSE
                      /\ UNCHANGED searches
                 ELSE /\ isSearching' = TRUE
                      /\ searches' = searches \cup {s}
                      /\ UNCHANGED searchResults
              /\ latest' = Request("search", s.id, << >>)
  /\ UNCHANGED notSearchVars

\* A note the search has visited, and whether its readTextFile resolved.
Seen(node, ok) == [node |-> node, ok |-> ok]

\* noteStore.ts:210-235  a readTextFile of the search settles: the note adds
\* to the results, or is skipped if it cannot be read; the search goes on to
\* the next note or sets its results.
SearchRead(s, ok) ==
  /\ s \in searches
  /\ LET node == Head(s.todo)
         results == IF ok /\ node.path \in DOMAIN NoteLines
                    THEN WithNote(s.results, node, NoteLines[node.path],
                                  toLowerCase(s.query))
                    ELSE s.results
     IN  IF Tail(s.todo) = << >>
         THEN /\ searches' = searches \ {s}
              /\ SearchDone(s, results)
         ELSE /\ searches' = (searches \ {s}) \cup
                               {[s EXCEPT !.todo = Tail(@),
                                          !.results = results,
                                          !.seen = Append(@, Seen(node, ok))]}
              /\ UNCHANGED << searchResults, isSearching, latest >>
  /\ UNCHANGED << searchQuery, nSearches, notSearchVars >>

\* noteStore.ts:242-244
clearSearch ==
  /\ searchQuery' = << >>
  /\ searchResults' = << >>
  /\ isSearching' = FALSE
  /\ latest' = Request("clear", latest.id, << >>)
  /\ UNCHANGED << searches, nSearches, notSearchVars >>

\* The queries typed: three words and a blank one.
Queries == { << "a" >>, << "B" >>, << "z" >>, << " " >> }

InitSearch ==
  /\ OtherIdle
  /\ files = NoteTree
  /\ scans = {}
  /\ nScans = 0
  /\ InitSessionIdle
  /\ NameIdle
  /\ FsIdle

SearchNext ==
  \/ \E query \in Queries : searchNotes(query)
  \/ \E s \in searches, ok \in BOOLEAN : SearchRead(s, ok)
  \/ clearSearch

SearchSpec == InitSearch /\ [][SearchNext]_vars

(***************************************************************************)
(* Backlinks: findBacklinks, noteStore.ts:246-280                          *)
(***************************************************************************)

\* Bound: the findBacklinks calls of a behaviour.
MaxLinks == 2

\* noteStore.ts:249-250  the text the pattern matches, case apart
LinkText(noteName) == << "[", "[" >> \o noteName \o << "]", "]" >>

\* searchPattern.test(str) of a pattern with the flags g and i: the search
\* starts at lastIndex (counted from 0); a match leaves lastIndex behind its
\* end, no match resets it to 0.
Test(noteName, str, lastIndex) ==
  LET pat == toLowerCase(LinkText(noteName))
      at == {p \in lastIndex..(Len(str) - Len(pat)) :
               SubSeq(toLowerCase(str), p + 1, p + Len(pat)) = pat}
  IN  IF at = {} THEN [found |-> FALSE, lastIndex |-> 0]
      ELSE [found |-> TRUE,
            lastIndex |-> (CHOOSE p \in at : \A q \in at : p <= q) + Len(pat)]

\* noteStore.ts:261-270  the loop over the lines from line i on: the first
\* line the pattern tests true on (0 if none) and the lastIndex it leaves.
RECURSIVE FirstTested(_, _, _, _)
FirstTested(noteName, lines, i, lastIndex) ==
  IF i > Len(lines) THEN [line |-> 0, lastIndex |-> lastIndex]
  ELSE LET t == Test(noteName, lines[i], lastIndex)
       IN  IF t.found THEN [line |-> i, lastIndex |-> t.lastIndex]
           ELSE FirstTested(noteName, lines, i + 1, 0)

\* noteStore.ts:263-267
Backlink(node, line) ==
  [path |-> node.path,
   name |-> IF EndsWith(node.name, MdExt)
            THEN SubSeq(node.name, 1, Len(node.name) - Len(MdExt))
            ELSE node.name,
   context |-> SubSeq(Trim(line), 1, Min(100, Len(Trim(line))))]

\* noteStore.ts:246-258  findBacklinks(noteName) up to its first
\* readTextFile
findBacklinks(noteName) ==
  /\ nLinks < MaxLinks
  /\ nLinks' = nLinks + 1
  /\ openName' = noteName
  /\ LET l == [id |-> nLinks + 1, noteName |-> noteName,
               todo |-> NotesIn(files), read |-> << >>,
               found |-> << >>, lastIndex |-> 0]
     IN  IF l.todo = << >>
         THEN backlinks' = << >> /\ UNCHANGED links
         ELSE links' = links \cup {l} /\ UNCHANGED backlinks
  /\ UNCHANGED notLinkVars

\* noteStore.ts:258-279  a readTextFile of the call settles: the lines of
\* the note are tested, and a note that cannot be read is skipped; the call
\* goes on to the next note or sets backlinks.
LinkRead(l, ok) ==
  /\ l \in links
  /\ LET node == Head(l.todo)
         readable == ok /\ node.path \in DOMAIN NoteLines
         t == IF readable
              THEN FirstTested(l.noteName, NoteLines[node.path], 1,
                               l.lastIndex)
              ELSE [line |-> 0, lastIndex |-> l.lastIndex]
         found == IF t.line > 0
                  THEN Append(l.found,
                              Backlink(node, NoteLines[node.path][t.line]))
                  ELSE l.found
     IN  IF Tail(l.todo) = << >>
         THEN /\ links' = links \ {l}
              /\ backlinks' = found
         ELSE /\ links' = (links \ {l}) \cup
                            {[l EXCEPT !.todo = Tail(@),
                                       !.read = IF readable
                                                THEN Append(@, node)
                                                ELSE @,
                                       !.found = found,
                                       !.lastIndex = t.lastIndex]}
              /\ UNCHANGED backlinks
  /\ UNCHANGED << nLinks, openName, notLinkVars >>

\* part_001:7-17  the names of the notes opened: n.md and Z.md
LinkNames == { << "n" >>, << "Z" >> }

InitLinks == InitSearch

LinkNext ==
  \/ \E noteName \in LinkNames : findBacklinks(noteName)
  \/ \E l \in links, ok \in BOOLEAN : LinkRead(l, ok)

LinkSpec == InitLinks /\ [][LinkNext]_vars

(***************************************************************************)
(* Favorites: toggleFavorite, noteStore.ts:153-174                         *)
(***************************************************************************)

\* noteStore.ts:155-158
Updated(favs, path) ==
  IF InSeq(favs, path) THEN SelectSeq(favs, LAMBDA p : p # path)
  ELSE Append(favs, path)

\* updateFavorites with the children left as they are.
updateFavoritesTopLevel(nodes, updated) ==
  [i \in 1..Len(nodes) |->
     [nodes[i] EXCEPT !.isFavorite = InSeq(updated, nodes[i].path)]]

\* noteStore.ts:165-171
RECURSIVE updateFavorites(_, _)
updateFavorites(nodes, updated) ==
  [i \in 1..Len(nodes) |->
     LET node == nodes[i]
     IN  IF "children" \in DOMAIN node
         THEN [node EXCEPT !.isFavorite = InSeq(updated, node.path),
                           !.children = updateFavorites(@, updated)]
         ELSE [node EXCEPT !.isFavorite = InSeq(updated, node.path)]]

\* noteStore.ts:153-174  toggleFavorite(path) with nothing interleaved and
\* the store written.
toggleFavorite(path) ==
  LET updated == Updated(favorites, path)
  IN  /\ metaStore' = [metaStore EXCEPT !.favorites = updated]
      /\ favorites' = updated
      /\ files' = updateFavorites(files, updated)
      /\ lastToggle' = [path |-> path, before |-> favorites,
                        again |-> lastToggle.path = path]
      /\ UNCHANGED << currentNote, content, isDirty, isLoading, isSaving,
                      recentNotes, disk, editorVars, loads, requested, writes, lastOp,
                      issued, nameVars, fsVars, scans, nScans,
                      otherThanFavVars >>

\* noteStore.ts:160-162  store.set or store.save rejects: toggleFavorite
\* rejects before it sets the state.
toggleFavoriteRejects(path, afterSet) ==
  /\ metaStore' = IF afterSet
                  THEN [metaStore EXCEPT
                          !.favorites = Updated(favorites, path)]
                  ELSE metaStore
  /\ lastToggle' = NoToggle
  /\ UNCHANGED << storeVars, disk, editorVars, loads, requested, writes, lastOp, issued,
                  nameVars, fsVars, treeVars, otherThanFavVars >>

\* part_003:568-570, 605-611  the notes of the tree
FavPaths == {NotesIn(NoteTree)[i].path : i \in 1..Len(NotesIn(NoteTree))}

InitFav == InitSearch

FavNext ==
  \/ \E path \in FavPaths : toggleFavorite(path)
  \/ \E path \in FavPaths, afterSet \in BOOLEAN :
       toggleFavoriteRejects(path, afterSet)

FavSpec == InitFav /\ [][FavNext]_vars

(***************************************************************************)
(* The handlers of the file tree: handleCreateFolder (part_003:78-84),     *)
(* handleDelete, handleRename (part_003:350-380) and handleMove            *)
(* (part_003:396-413).  Each awaits its mutator, then refreshFiles, then   *)
(* shows its toast.                                                        *)
(***************************************************************************)

\* A path as the string the store holds in currentNote.
RECURSIVE PathString(_)
PathString(path) ==
  IF path = << >> THEN "" ELSE Head(path) \o PathString(Tail(path))

\* The nodes of a tree, at every depth: the rows of the file tree.
RECURSIVE NodesOf(_)
NodesOf(nodes) ==
  UNION {{[path |-> nodes[i].path, name |-> nodes[i].name,
           isDirectory |-> nodes[i].isDirectory]}
           \cup (IF "children" \in DOMAIN nodes[i]
                 THEN NodesOf(nodes[i].children) ELSE {})
         : i \in 1..Len(nodes)}

\* The mutator call awaited by a handler has returned and the handler has
\* not resumed yet.
Due == returned # NoReturn /\ \A h \in handlers : h.id # returned.id

\* The rebuild awaited by handler h has installed its tree.
Refreshed(h) == h.pc = "refresh" /\ \A s \in scans : s.id # h.scan

\* The readNotesDirectory awaited by handleChangeFolder has returned.
Reloaded(h) == h.pc = "reload" /\ \A s \in scans : s.id # h.scan

\* A handler resumes as soon as what it awaits has settled, before any other
\* event is handled.
Urgent == Due \/ \E h \in handlers : Refreshed(h) \/ Reloaded(h)

\* part_003:350-355
handleDelete(path) ==
  /\ ~Urgent
  /\ \E node \in NodesOf(files) : node.path = path
  /\ DeleteItemCall(path)

\* part_003:370-372
handleRename(path, newName) ==
  /\ ~Urgent
  /\ \E node \in NodesOf(files) : node.path = path /\ newName # node.name
  /\ Trim(newName) # << >>
  /\ RenameItemCall(path, Trim(newName))

\* part_003:78-80
handleCreateFolder(newItemName) ==
  /\ ~Urgent
  /\ Trim(newItemName) # << >>
  /\ CreateFolderCall(Root, Trim(newItemName))

\* part_003:396-398, 465-469
handleMove(path, targetFolder) ==
  /\ ~Urgent
  /\ \E node \in NodesOf(files) : node.path = path
  /\ \/ targetFolder = Root
     \/ \E node \in NodesOf(files) :
          node.path = targetFolder /\ node.isDirectory
  /\ targetFolder # ParentOf(path)
  /\ MoveItemCall(path, targetFolder)

\* An await of a mutator call settles.
MutatorSettle(c, ok) ==
  /\ ~Urgent
  /\ \/ DeleteItemRemove(c, ok)
     \/ RenameItemRename(c, ok)
     \/ CreateFolderMkdir(c, ok)
     \/ MoveItemExists(c, ok)
     \/ MoveItemRename(c, ok)

Handler(r, pc, cleared, scan) ==
  [id |-> r.id, fn |-> r.fn, path |-> r.a, result |-> r.result, pc |-> pc,
   cleared |-> cleared, scan |-> scan]

Toast(type, h) == [type |-> type, by |-> h.id]

\* part_003:25-27  onRefresh() up to its first readDir
OnRefresh ==
  /\ nScans' = nScans + 1
  /\ scans' = scans \cup {[id |-> nScans + 1, stack |-> << Frame(Root) >>]}

\* The mutator call has returned and its handler goes on with the result:
\* part_003:357-360 (handleDelete), 373 (handleRename), 81
\* (handleCreateFolder), 399-406 (handleMove).  setCurrentNote
\* (noteStore.ts:99-101) sets currentNote alone, and the render that follows
\* it runs the editor's flush effect.
HandlerResume ==
  /\ Due
  /\ LET r == returned
         open == currentNote = PathString(r.a)
     IN  IF r.fn = "deleteItem"
         THEN /\ currentNote' = IF open THEN NoNote ELSE currentNote
              /\ OnRefresh
              /\ handlers' = handlers \cup
                               {Handler(r, "refresh", open, nScans + 1)}
              /\ UNCHANGED toasts
         ELSE IF r.fn = "moveItem" /\ r.result = Null
         THEN /\ handlers' = handlers \cup {Handler(r, "done", FALSE, 0)}
              /\ toasts' = Append(toasts,
                                  Toast("error", Handler(r, "done", FALSE, 0)))
              /\ UNCHANGED << currentNote, scans, nScans >>
         ELSE /\ currentNote' = IF r.fn = "moveItem" /\ open
                                THEN PathString(r.result.value)
                                ELSE currentNote
              /\ OnRefresh
              /\ handlers' = handlers \cup
                               {Handler(r, "refresh", FALSE, nScans + 1)}
              /\ UNCHANGED toasts
  /\ Render(currentNote', content, isDirty, saveTimeoutRef, writes)
  /\ UNCHANGED << content, isDirty, isLoading, isSaving, recentNotes,
                  favorites, disk, metaStore, pendingSaveRef, loads,
                  lastOp, requested, nameVars, fsVars, files,
                  otherThanHandlerVars >>

\* The rebuild of handler h has installed its tree: part_003:362
\* (handleDelete), 375 (handleRename), 82-83 (handleCreateFolder), 405
\* (handleMove).
HandlerDone(h) ==
  /\ h \in handlers /\ Refreshed(h)
  /\ ~Due
  /\ handlers' = (handlers \ {h}) \cup {[h EXCEPT !.pc = "done"]}
  /\ toasts' = IF h.fn = "createFolder" THEN toasts
               ELSE Append(toasts, Toast("success", h))
  /\ UNCHANGED << sessionVars, nameVars, fsVars, treeVars,
                  otherThanHandlerVars >>

\* A readDir of a rebuild settles with the entries it lists.
HandlerReadDir(s, order) ==
  /\ ~Urgent
  /\ ReadDirSettle(s, TRUE, order)

\* The note /r/n.md is open and the tree shows the notes folder.
InitHandlers ==
  /\ fs = InitStorage
  /\ calls = {}
  /\ nCalls = 0
  /\ returned = NoReturn
  /\ fsOp = NoFsOp
  /\ files = markFavorites(TreeOf(InitStorage, Root), << >>)
  /\ scans = {}
  /\ nScans = 0
  /\ currentNote = PathString(NoteN)
  /\ content = Body(PathString(NoteN), 0)
  /\ isDirty = FALSE
  /\ isLoading = FALSE
  /\ isSaving = FALSE
  /\ recentNotes = << PathString(NoteN) >>
  /\ metaStore = [recentNotes |-> << PathString(NoteN) >>,
                  favorites |-> << >>]
  /\ favorites = << >>
  /\ disk = [n \in Notes |-> Body(n, 0)]
  /\ pendingSaveRef = NoPending
  /\ saveTimeoutRef = NoTimer
  /\ effectCaptured = Captured(PathString(NoteN),
                               Body(PathString(NoteN), 0), FALSE)
  /\ loads = {}
  /\ requested = PathString(NoteN)
  /\ writes = {}
  /\ lastOp = "loadNoteFinish"
  /\ issued = {}
  /\ NameIdle
  /\ OtherIdle

HandlerNext ==
  \/ \E path \in {NoteN, FolderA} : handleDelete(path)
  \/ \E newName \in UserNames \cup {<< "O", ".", "m", "d" >>} :
       handleRename(NoteN, newName)
  \/ \E newItemName \in UserNames : handleCreateFolder(newItemName)
  \/ \E targetFolder \in {Root, FolderA} : handleMove(NoteN, targetFolder)
  \/ \E c \in calls, ok \in BOOLEAN : MutatorSettle(c, ok)
  \/ HandlerResume
  \/ \E h \in handlers : HandlerDone(h)
  \/ \E s \in scans :
       \E order \in TwoOrders(Entries(fs, s.stack[Len(s.stack)].path)) :
         HandlerReadDir(s, order)

HandlerSpec == InitHandlers /\ [][HandlerNext]_vars

(***************************************************************************)
(* The open note and the handlers together: the note /r/n.md is open in    *)
(* the editor (MarkdownEditor.tsx:39-68, 327-347) while the file tree's    *)
(* handlers delete, rename or move it (part_003:350-413) and the settings  *)
(* change the notes folder (part_005:20-40).                               *)
(***************************************************************************)

\* Bound: the handleChangeFolder calls of a behaviour.
MaxFolderChanges == 1

\* part_005:20-27  handleChangeFolder up to the first readDir of its
\* readNotesDirectory: the folder selected is the notes folder, and
\* setNotesFolder has resolved.
handleChangeFolder ==
  /\ ~Urgent
  /\ Cardinality({h \in handlers : h.fn = "changeFolder"}) < MaxFolderChanges
  /\ OnRefresh
  /\ handlers' = handlers \cup
                   {[id |-> 0, fn |-> "changeFolder", path |-> Root,
                     result |-> Null, pc |-> "reload", cleared |-> FALSE,
                     scan |-> nScans + 1]}
  /\ UNCHANGED << sessionVars, nameVars, fsVars, files, toasts,
                  otherThanHandlerVars >>

\* part_005:28-32  readNotesDirectory has returned and setFiles has
\* installed its tree: setCurrentNote(null), the render that follows it, and
\* the toast.
ChangeFolderDone(h) ==
  /\ h \in handlers /\ Reloaded(h)
  /\ handlers' = (handlers \ {h}) \cup
                   {[h EXCEPT !.pc = "done", !.cleared = TRUE]}
  /\ currentNote' = NoNote
  /\ Render(NoNote, content, isDirty, saveTimeoutRef, writes)
  /\ toasts' = Append(toasts, Toast("success", h))
  /\ UNCHANGED << content, isDirty, isLoading, isSaving, recentNotes,
                  favorites, disk, metaStore, pendingSaveRef, loads,
                  lastOp, requested, nameVars, fsVars, treeVars,
                  otherThanHandlerVars >>

\* The editor's events and the settling of its writes, handled when no
\* handler is about to resume.
Editor ==
  /\ ~Urgent
  /\ \/ \E value \in Bodies(currentNote) : HandleChange(value)
     \/ TimerFire
     \/ SaveNoteStart
     \/ \E w \in writes, ok \in BOOLEAN :
          \/ AutoSaveSettle(w, ok)
          \/ SaveNoteSettle(w, ok)
          \/ FlushSettle(w, ok)

InitOpen == InitHandlers

\* No handler is under way: the handlers are explored one after the other.
Quiet == calls = {} /\ scans = {}

OpenNext ==
  \/ Quiet /\ handleDelete(NoteN)
  \/ Quiet /\ handleRename(NoteN, << "O", ".", "m", "d" >>)
  \/ Quiet /\ handleMove(NoteN, FolderA)
  \/ Quiet /\ handleChangeFolder
  \/ \E c \in calls, ok \in BOOLEAN : MutatorSettle(c, ok)
  \/ HandlerResume
  \/ \E h \in handlers : HandlerDone(h)
  \/ \E h \in handlers : ChangeFolderDone(h)
  \/ \E s \in scans :
       HandlerReadDir(s, ByCodeUnit(CHOOSE o \in Orders(Entries(fs,
                                      s.stack[Len(s.stack)].path)) : TRUE))
  \/ Editor

OpenSpec == InitOpen /\ [][OpenNext]_vars

(***************************************************************************)
(* The favorites and the tree together: loadFavorites                      *)
(* (noteStore.ts:176-185) as App starts (part_000:23-33), toggleFavorite   *)
(* (noteStore.ts:153-174) await by await, the rebuilds and a deleteItem.   *)
(***************************************************************************)

\* Bound: the toggleFavorite calls of a behaviour.
MaxToggles == 2

NoteM == Join(FolderA, << "m" >> \o MdExt)

\* noteStore.ts:153-160  toggleFavorite(path) up to store.set: favorites and
\* files are read, updated is computed.  The star is shown on the rows of
\* notes (part_003:568-570).
ToggleCall(path) ==
  /\ nToggles < MaxToggles
  /\ \E node \in NodesOf(files) : node.path = path /\ ~node.isDirectory
  /\ nToggles' = nToggles + 1
  /\ toggles' = toggles \cup
       {[id |-> nToggles + 1, path |-> path, before |-> favorites,
         updated |-> Updated(favorites, path), files |-> files,
         loading |-> favLoad # "done", pc |-> "set"]}
  /\ UNCHANGED << sessionVars, nameVars, fsVars, treeVars, favLoad,
                  otherThanRaceVars, favVars >>

\* noteStore.ts:161  store.set("favorites", updated) settles
ToggleSet(t, ok) ==
  /\ t \in toggles /\ t.pc = "set"
  /\ toggles' = (toggles \ {t}) \cup
                  {[t EXCEPT !.pc = IF ok THEN "save" ELSE "rejected"]}
  /\ metaStore' = IF ok THEN [metaStore EXCEPT !.favorites = t.updated]
                  ELSE metaStore
  /\ UNCHANGED << storeVars, disk, editorVars, loads, requested, writes, lastOp, issued,
                  nameVars, fsVars, treeVars, nToggles, favLoad,
                  otherThanRaceVars, favVars >>

\* noteStore.ts:162-173  store.save() settles: favorites is set, and files
\* to the tree read at the call with its marks updated.
ToggleSave(t, ok) ==
  /\ t \in toggles /\ t.pc = "save"
  /\ toggles' = (toggles \ {t}) \cup
                  {[t EXCEPT !.pc = IF ok THEN "done" ELSE "rejected"]}
  /\ IF ok
     THEN /\ favorites' = t.updated
          /\ files' = updateFavorites(t.files, t.updated)
          /\ lastToggle' = [path |-> t.path, before |-> t.before,
                            again |-> lastToggle.path = t.path]
     ELSE UNCHANGED << favorites, files, lastToggle >>
  /\ UNCHANGED << currentNote, content, isDirty, isLoading, isSaving,
                  recentNotes, disk, metaStore, editorVars, loads, requested, writes,
                  lastOp, issued, nameVars, fsVars, scans, nScans, nToggles,
                  favLoad, otherThanRaceVars >>

\* noteStore.ts:177-184  loadFavorites settles: favorites and recentNotes
\* are set from the store, or the error is logged.
LoadFavoritesSettle(ok) ==
  /\ favLoad = "loading"
  /\ favLoad' = "done"
  /\ IF ok
     THEN /\ favorites' = metaStore.favorites
          /\ recentNotes' = metaStore.recentNotes
     ELSE UNCHANGED << favorites, recentNotes >>
  /\ UNCHANGED << currentNote, content, isDirty, isLoading, isSaving, disk,
                  metaStore, editorVars, loads, requested, writes, lastOp, issued,
                  nameVars, fsVars, treeVars, toggles, nToggles,
                  otherThanRaceVars, favVars >>

\* App starts on the notes folder TreeStorage with a/m.md or nothing stored
\* as favorite: loadFavorites is under way and no tree is installed yet; or
\* App has started with nothing stored: the tree is installed.
InitFavTree ==
  /\ fs = TreeStorage
  /\ calls = {}
  /\ nCalls = 0
  /\ returned = NoReturn
  /\ fsOp = NoFsOp
  /\ scans = {}
  /\ nScans = 0
  /\ currentNote = NoNote
  /\ content = EmptyContent
  /\ isDirty = FALSE
  /\ isLoading = FALSE
  /\ isSaving = FALSE
  /\ recentNotes = << >>
  /\ favorites = << >>
  /\ disk = [n \in Notes |-> Body(n, 0)]
  /\ pendingSaveRef = NoPending
  /\ saveTimeoutRef = NoTimer
  /\ effectCaptured = Captured(NoNote, EmptyContent, FALSE)
  /\ loads = {}
  /\ requested = NoNote
  /\ writes = {}
  /\ lastOp = "init"
  /\ issued = {}
  /\ NameIdle
  /\ SearchIdle /\ LinkIdle /\ FavIdle /\ HandlerIdle
  /\ toggles = {}
  /\ nToggles = 0
  /\ \/ /\ favLoad = "loading"
        /\ files = << >>
        /\ \E stored \in {<< >>, << NoteM >>} :
             metaStore = [recentNotes |-> << >>, favorites |-> stored]
     \/ /\ favLoad = "done"
        /\ files = NoteTree
        /\ metaStore = [recentNotes |-> << >>, favorites |-> << >>]

FavTreeNext ==
  \/ \E path \in {NoteN, NoteM} : ToggleCall(path)
  \/ \E t \in toggles, ok \in BOOLEAN : ToggleSet(t, ok)
  \/ \E t \in toggles, ok \in BOOLEAN : ToggleSave(t, ok)
  \/ \E ok \in BOOLEAN : LoadFavoritesSettle(ok)
  \/ RefreshStart
  \/ \E s \in scans :
       \E order \in TwoOrders(Entries(fs, s.stack[Len(s.stack)].path)) :
         ReadDirSettle(s, TRUE, order)
  \/ \E s \in scans : ReadDirSettle(s, FALSE, << >>)
  \/ DeleteItemCall(FolderA)
  \/ \E c \in calls, ok \in BOOLEAN : DeleteItemRemove(c, ok)

FavTreeSpec == InitFavTree /\ [][FavTreeNext]_vars

(***************************************************************************)
(* loadNote calls that overlap: a row of the file tree (part_003:96-108)   *)
(* or a search result (Toolbar.tsx:51-55) is clicked while the loadNote    *)
(* of an earlier click is suspended at one of its awaits                   *)
(* (noteStore.ts:116-139).  Storage does not fail here.                    *)
(***************************************************************************)

\* Bound: the loadNote calls suspended at an await.
MaxLoads == 2

InitLoads == Init

LoadNext ==
  \/ \E p \in Notes : Cardinality(loads) < MaxLoads /\ LoadNoteStart(p)
  \/ \E l \in loads : LoadNoteRead(l, TRUE)
  \/ \E l \in loads : LoadNoteFinish(l)

LoadSpec == InitLoads /\ [][LoadNext]_vars

(***************************************************************************)
(* Claims about the search, checked under SearchSpec.                      *)
(***************************************************************************)

\* C15: once every search has completed, searchResults are the results of
\* the searchNotes call started last, and they are empty if a blank query
\* or clearSearch came after it.
C15_NewestSearchWins ==
  searches = {} =>
    /\ latest.kind = "search" => searchResults = latest.results
    /\ latest.kind \in {"blank", "clear"} => searchResults = << >>

(***************************************************************************)
(* Claims about the backlinks, checked under LinkSpec.                     *)
(***************************************************************************)

\* The first line of lines that contains [[noteName]], case apart; 0 if none.
FirstLinking(noteName, lines) ==
  LET has == {i \in 1..Len(lines) :
                Includes(toLowerCase(lines[i]),
                         toLowerCase(LinkText(noteName)))}
  IN  IF has = {} THEN 0 ELSE CHOOSE i \in has : \A j \in has : i <= j

\* The backlinks to noteName of the notes read, in the order they were read.
RECURSIVE LinkingNotes(_, _)
LinkingNotes(noteName, read) ==
  IF read = << >> THEN << >>
  ELSE LET node == Head(read)
           i == FirstLinking(noteName, NoteLines[node.path])
       IN  (IF i > 0 THEN << Backlink(node, NoteLines[node.path][i]) >>
            ELSE << >>)
           \o LinkingNotes(noteName, Tail(read))

\* C16: the backlinks findBacklinks sets are one per note it could read that
\* has a line containing [[noteName]], case apart, each with the first such
\* line as context.
C16_BacklinksComplete ==
  [][\A l \in links, ok \in BOOLEAN :
       (LinkRead(l, ok) /\ Tail(l.todo) = << >>) =>
         backlinks' =
           LinkingNotes(l.noteName,
                        l.read \o (IF ok THEN << Head(l.todo) >>
                                   ELSE << >>))]_vars

(***************************************************************************)
(* Claims about the favorites, checked under FavSpec.                      *)
(***************************************************************************)

\* Every node of the tree, at any depth, has isFavorite iff its path is in
\* favs.
RECURSIVE AllMarked(_, _)
AllMarked(nodes, favs) ==
  \A i \in 1..Len(nodes) :
    /\ nodes[i].isFavorite <=> InSeq(favs, nodes[i].path)
    /\ "children" \in DOMAIN nodes[i] => AllMarked(nodes[i].children, favs)

\* C17: a toggleFavorite(path) that runs alone flips the membership of path
\* in favorites and of no other path, so that a second toggle of the same
\* path right after restores the set; it stores the new list, and after it
\* every node at any depth has isFavorite iff its path is in favorites.
C17_ToggleFavorite ==
  [][\A path \in FavPaths :
       toggleFavorite(path) =>
         /\ InSeq(favorites', path) # InSeq(favorites, path)
         /\ Range(favorites') \ {path} = Range(favorites) \ {path}
         /\ lastToggle.path = path =>
              Range(favorites') = Range(lastToggle.before)
         /\ metaStore'.favorites = favorites'
         /\ AllMarked(files', favorites')]_vars

\* A second toggle in a row of a/m.md has taken it out of the favorites
\* again while a/N.md, in the same folder, stays one.
C17_Witness ==
  /\ lastToggle.path = Join(FolderA, << "m" >> \o MdExt)
  /\ lastToggle.again
  /\ ~InSeq(favorites, lastToggle.path)
  /\ Len(files[1].children) = 2
  /\ ~files[1].children[1].isFavorite
  /\ files[1].children[2].isFavorite

(***************************************************************************)
(* Claims about the handlers, checked under HandlerSpec.                   *)
(***************************************************************************)

\* C18: a handler whose deleteItem, renameItem or createFolder call returned
\* a failure has not cleared the open note and, when it is done, has shown
\* an error toast and no success toast.
C18_FailureReported ==
  \A h \in handlers :
    (h.fn \in {"deleteItem", "renameItem", "createFolder"}
       /\ h.result = Null) =>
      /\ ~h.cleared
      /\ h.pc = "done" =>
           /\ \E i \in 1..Len(toasts) : toasts[i] = Toast("error", h)
           /\ \A i \in 1..Len(toasts) : toasts[i] # Toast("success", h)

\* C20: once every mutator call, every rebuild and every handler has
\* completed, the tree in the store is the listing of storage.
C20_TreeIsListing ==
  (/\ handlers # {}
   /\ calls = {}
   /\ scans = {}
   /\ ~Urgent
   /\ \A h \in handlers : h.pc = "done") =>
    files = markFavorites(TreeOf(fs, Root), favorites)

(***************************************************************************)
(* Claims about the mutators, checked under FsSpec.                        *)
(***************************************************************************)
\* C7: moveItem(X, X) and moveItem(X, T) with T below X return null without a
\* storage operation (never suspended at an await, no operation counted at
\* the return); moveItem(/r/a, /r/ab), whose target only has the source as a
\* string prefix, passes the guard and goes on to its exists check.
C7_MoveIntoSelfRejected ==
  /\ [](\A c \in calls :
          c.fn = "moveItem" =>
            ~(c.b = c.a \/ StartsWith(c.b, c.a \o Slash)))
  /\ []((/\ returned.fn = "moveItem"
         /\ (\/ returned.b = returned.a
             \/ StartsWith(returned.b, returned.a \o Slash)))
          => (returned.result = Null /\ returned.ops = 0))
  /\ [][MoveItemCall(FolderA, FolderAB) =>
          \E c \in calls' \ calls :
            /\ c.fn = "moveItem" /\ c.pc = "exists"
            /\ c.a = FolderA /\ c.b = FolderAB]_vars

\* moveItem(/r/a, /r/a/s) has returned null with no storage operation while
\* moveItem(/r/a, /r/ab) is past its exists check.
C7_Witness ==
  /\ returned.fn = "moveItem"
  /\ returned.a = FolderA /\ returned.b = FolderAS
  /\ returned.result = Null /\ returned.ops = 0
  /\ \E c \in calls :
       c.fn = "moveItem" /\ c.a = FolderA /\ c.b = FolderAB /\ c.pc = "rename"

\* C8: moveItem never overwrites: the rename a moveItem performs never
\* succeeds onto a path where an item is at that moment, whatever other
\* mutators ran in between.
C8_MoveNeverOverwrites ==
  ~(/\ fsOp.by = "moveItem" /\ fsOp.op = "rename"
    /\ fsOp.ok /\ fsOp.replaced)

\* C9: a call of createNote, createFolder, renameItem, saveImage or
\* saveAttachment whose sanitized name fails isValidName performs no storage
\* operation and returns null: it has performed none while it is suspended,
\* and none when it has returned.
C9_InvalidNameNoStorage ==
  LET NameTaking == {"createNote", "createFolder", "renameItem",
                     "saveImage", "saveAttachment"}
      Invalid(c) == c.fn \in NameTaking /\ ~isValidName(sanitizeFileName(c.b))
  IN  /\ \A c \in calls : Invalid(c) => c.ops = 0
      /\ Invalid(returned) => (returned.result = Null /\ returned.ops = 0)

\* C11: createNote never overwrites: a call that finds a file at its path
\* returns null and leaves storage as it is, and the write of a createNote
\* call never changes what a file already at its path holds, whatever ran
\* between its exists check and its write.
C11_CreateNeverOverwrites ==
  [][\A c \in calls :
       (c.fn = "createNote" /\ c \notin calls' /\ FsExists(fs, c.path)) =>
         /\ FsExists(fs', c.path) /\ fs'[c.path] = fs[c.path]
         /\ c.pc = "exists" => (returned'.result = Null /\ fs' = fs)]_vars

\* C13: openDailyNote is idempotent on storage: a call for a date that
\* returns, no storage call of it hit by an I/O error, while the file of the
\* date exists returns its path with isNew false and leaves storage as it
\* is, also when the call overlaps the one that created the file.
C13_DailyIdempotent ==
  [][\A c \in calls :
       (/\ \/ OpenDailyNoteFolderExists(c, TRUE)
           \/ OpenDailyNoteMkdir(c, TRUE)
           \/ OpenDailyNoteFileExists(c, TRUE)
           \/ OpenDailyNoteWrite(c, TRUE)
        /\ \A d \in calls' : d.id # c.id
        /\ FsExists(fs, c.path)) =>
         /\ returned'.result = Daily(c.path, FALSE)
         /\ fs' = fs]_vars

\* C14: saveImage and saveAttachment never overwrite: the write of a call
\* that succeeds goes to a path where no file is at that moment, also when
\* two calls with the same file name overlap.
C14_SaveFileNeverOverwrites ==
  ~(/\ fsOp.by \in {"saveImage", "saveAttachment"}
    /\ fsOp.op = "write" /\ fsOp.ok /\ fsOp.replaced)

\* C19: a call of createNote, createFolder, renameItem, moveItem,
\* openDailyNote, saveImage or saveAttachment that has returned null has
\* made nothing in storage.
C19_FailureLeavesStorage ==
  (/\ returned.fn \in {"createNote", "createFolder", "renameItem", "moveItem",
                       "openDailyNote", "saveImage", "saveAttachment"}
   /\ returned.result = Null) =>
    returned.made = {}

\* C21: a step of a mutator call whose storage operation fails ends the
\* call with null (false for deleteItem): nothing is thrown to the caller.
C21_FailureReturnsNull ==
  [][\A c \in calls :
       (/\ c.fn \in {"createNote", "createFolder", "renameItem", "moveItem",
                     "openDailyNote", "saveImage", "saveAttachment",
                     "deleteItem"}
        /\ c \notin calls'
        /\ ~fsOp'.ok) =>
         returned' = Returned(c, Null, c.ops + 1)]_vars

\* The rename of a moveItem call has failed and the call has returned null.
C21_Witness ==
  /\ returned.fn = "moveItem"
  /\ returned.result = Null
  /\ fsOp.by = "moveItem" /\ fsOp.op = "rename" /\ ~fsOp.ok

(***************************************************************************)
(* Claims about the tree.                                                  *)
(***************************************************************************)
\* The name with its upper case letters made lower case.
FoldCase(name) ==
  [i \in 1..Len(name) |->
     IF name[i] \in Range(UpperCase)
     THEN LowerCase[IndexIn(UpperCase, name[i])] ELSE name[i]]

\* Directories before files and, among the directories and among the files,
\* no name after a later one once case is ignored; so at every level.
RECURSIVE SortedTree(_)
SortedTree(nodes) ==
  /\ \A i, j \in 1..Len(nodes) :
       i < j =>
         /\ nodes[i].isDirectory \/ ~nodes[j].isDirectory
         /\ nodes[i].isDirectory = nodes[j].isDirectory =>
              CodeUnitCompare(FoldCase(nodes[i].name),
                              FoldCase(nodes[j].name)) <= 0
  /\ \A i \in 1..Len(nodes) :
       "children" \in DOMAIN nodes[i] => SortedTree(nodes[i].children)

\* C12: the tree readNotesDirectory returns, as installed in the store, is
\* sorted at every level: directories before files, and each group in
\* case-insensitive order of name.
C12_TreeSorted == SortedTree(files)

\* A tree is installed whose first level has an upper case folder after a
\* lower case one and an upper case note after a lower case one, and whose
\* folder a holds two notes.
C12_Witness ==
  /\ Len(files) = 4
  /\ files[1].name = << "a" >> /\ files[2].name = << "B" >>
  /\ files[4].name = << "Z" >> \o MdExt
  /\ Len(files[1].children) = 2

(***************************************************************************)
(* Claims about one search, checked under SearchSpec.                      *)
(***************************************************************************)

\* The lines of a note that contain the query, case apart.
Hits(lines, query) ==
  {i \in 1..Len(lines) : Includes(FoldCase(lines[i]), FoldCase(query))}

\* The first three of these lines, each with its number and its text.
FirstThree(lines, query) ==
  LET hit == Hits(lines, query)
      Nth(k) == CHOOSE i \in hit : Cardinality({j \in hit : j < i}) = k - 1
  IN  [k \in 1..Min(3, Cardinality(hit)) |->
         [line |-> Nth(k), text |-> Trim(lines[Nth(k)])]]

\* One result for each note visited that was read and has the query in its
\* name or in a line, in the order of the visits.
RECURSIVE ResultsOf(_, _)
ResultsOf(query, seen) ==
  IF seen = << >> THEN << >>
  ELSE LET node == Head(seen).node
           lines == NoteLines[node.path]
       IN  (IF /\ Head(seen).ok
               /\ \/ Hits(lines, query) # {}
                  \/ Includes(FoldCase(node.name), FoldCase(query))
            THEN << [path |-> node.path, name |-> node.name,
                     matches |-> FirstThree(lines, query)] >>
            ELSE << >>)
           \o ResultsOf(query, Tail(seen))

\* C22: a search for a query that is not blank sets, when it has visited
\* the notes in the order of the tree, one result per note it could read
\* whose name or some line contains the query, case apart, with the first
\* three such lines at most; a blank query empties the results and reads no
\* note.
C22_SearchResults ==
  [][/\ \A s \in searches, ok \in BOOLEAN :
          (SearchRead(s, ok) /\ Tail(s.todo) = << >>) =>
            /\ Len(s.seen) + 1 = Len(NotesIn(files))
            /\ \A i \in 1..Len(s.seen) : s.seen[i].node = NotesIn(files)[i]
            /\ searchResults' =
                 ResultsOf(s.query, Append(s.seen, Seen(Head(s.todo), ok)))
     /\ \A query \in Queries :
          (searchNotes(query) /\ Trim(query) = << >>) =>
            (searchResults' = << >> /\ searches' = searches)]_vars

\* A search for "a" has completed: n.md with its one line, and Z.md, four
\* lines of which contain it, with the first three.
C22_Witness ==
  /\ searches = {}
  /\ searchQuery = << "a" >>
  /\ Len(searchResults) = 2
  /\ Len(searchResults[1].matches) = 1
  /\ Len(searchResults[2].matches) = 3
  /\ searchResults[2].matches[3].line = 3

(***************************************************************************)
(* Claims about the favorites and the tree, checked under FavTreeSpec.     *)
(***************************************************************************)

\* Every node under parent, at any depth: children iff it is a directory,
\* its path is the path of parent, "/" and its name, its name does not start
\* with a dot and, for a file, ends in ".md".
RECURSIVE WellFormed(_, _)
WellFormed(nodes, parent) ==
  \A i \in 1..Len(nodes) :
    LET node == nodes[i]
    IN  /\ ("children" \in DOMAIN node) <=> node.isDirectory
        /\ node.path = parent \o << "/" >> \o node.name
        /\ node.name # << >> /\ node.name[1] # "."
        /\ ~node.isDirectory =>
             /\ Len(node.name) >= 3
             /\ SubSeq(node.name, Len(node.name) - 2, Len(node.name))
                  = << ".", "m", "d" >>
        /\ "children" \in DOMAIN node => WellFormed(node.children, node.path)

\* C23: every node of the tree in the store has children iff it is a
\* directory, the path of its parent, "/" and its name as path, a name that
\* does not start with "." and, if it is a file, a name ending in ".md".
C23_NodesWellFormed == WellFormed(files, Root)

\* A tree with a folder of two notes, one a favorite, and a folder that
\* shows no child, installed by a toggleFavorite.
C23_Witness ==
  /\ lastToggle.path = NoteM
  /\ Len(files) = 4
  /\ Len(files[1].children) = 2
  /\ files[1].children[1].isFavorite
  /\ files[2].isDirectory /\ files[2].children = << >>
  /\ ~files[3].isDirectory

\* C26: when no toggleFavorite, loadFavorites or rebuild is under way, every
\* node of the tree has isFavorite iff its path is in favorites.
C26_MarksFollowFavorites ==
  (/\ favLoad = "done"
   /\ scans = {}
   /\ \A t \in toggles : t.pc \in {"done", "rejected"}) =>
    AllMarked(files, favorites)

\* C27: the toggleFavorite that completes changes no more of the tree than
\* the isFavorite marks: the nodes are those of the tree it finds.
C27_ToggleKeepsNodes ==
  [][\A t \in toggles :
       ToggleSave(t, TRUE) =>
         updateFavorites(files', << >>) = updateFavorites(files, << >>)]_vars

\* C28: when two toggleFavorite calls on distinct paths, made after
\* loadFavorites has completed, have both completed, each of the two paths
\* is a favorite iff it was none when the first call was made, and the
\* stored favorites are those of the store.
C28_NoToggleLost ==
  \A t, u \in toggles :
    (/\ nToggles = 2
     /\ t.id = 1 /\ u.id = 2
     /\ t.path # u.path
     /\ t.pc = "done" /\ u.pc = "done"
     /\ ~t.loading /\ ~u.loading) =>
      /\ InSeq(favorites, t.path) # InSeq(t.before, t.path)
      /\ InSeq(favorites, u.path) # InSeq(t.before, u.path)
      /\ metaStore.favorites = favorites

(***************************************************************************)
(* Claims about the open note and the handlers, checked under OpenSpec.    *)
(***************************************************************************)

\* The paths that a deleteItem, moveItem or renameItem of a handler has
\* deleted or vacated.
Vacated ==
  {PathString(h.path) :
     h \in {g \in handlers : /\ g.fn \in {"deleteItem", "moveItem",
                                           "renameItem"}
                              /\ g.result.ok}}

\* C24: after a successful deleteItem, moveItem or renameItem on the path of
\* the open note, no step of the session issues a write to that path: not
\* the flush of the editor's effect, not saveNote, not the auto-save.
C24_NoWriteToVacated ==
  [][\A w \in issued' : w.path \notin Vacated']_vars

\* C25: isDirty is true only if a note is open.
C25_DirtyOnlyWhenOpen == isDirty => currentNote # NoNote

(***************************************************************************)
(* Claims about overlapping loadNote calls, checked under LoadSpec.        *)
(***************************************************************************)

\* C30: once every loadNote call has completed, the open note, its content
\* and the head of recentNotes are those of the note requested last.
C30_LastRequestedIsOpen ==
  (loads = {} /\ requested # NoNote) =>
    /\ currentNote = requested
    /\ content = disk[requested]
    /\ recentNotes # << >> /\ Head(recentNotes) = requested

(***************************************************************************)
(* Claims about the backlinks of the open note, checked under LinkSpec.    *)
(***************************************************************************)

\* C29: whenever no findBacklinks is under way and a note is open, the
\* backlinks in the store are backlinks to the open note: the context of
\* each contains [[name]] for the open note's name, case apart.
C29_BacklinksOfOpenNote ==
  (links = {} /\ openName # << >>) =>
    \A i \in 1..Len(backlinks) :
      Includes(FoldCase(backlinks[i].context), FoldCase(LinkText(openName)))

(***************************************************************************)
(* NameSpec: the path guard applied to every name of at most MaxNameLen    *)
(* characters over NameChars.                                              *)
(***************************************************************************)
\* Bound: the length of the names put under the guard.
MaxNameLen == 4

\* A dot, both separators, a reserved character, a letter and a space.
NameChars == {".", "/", "\\", "<", "a", " "}

NamesUpTo(n) == UNION {[1..k -> NameChars] : k \in 0..n}

InitName ==
  /\ nameIn \in NamesUpTo(MaxNameLen)
  /\ nameOut = << "-" >>
  /\ InitSessionIdle
  /\ FsIdle
  /\ TreeIdle
  /\ OtherIdle

\* sanitizeFileName(nameIn), as each mutator calls it first.
Sanitize ==
  /\ nameOut = << "-" >>
  /\ nameOut' = sanitizeFileName(nameIn)
  /\ UNCHANGED << nameIn, notNameVars >>

NameNext == Sanitize

NameSpec == InitName /\ [][NameNext]_vars

\* C10: the result of sanitizeFileName holds no "..", no "/" and no "\".
C10_SanitizedIsSafe ==
  nameOut # << "-" >> =>
    /\ ~Includes(nameOut, << ".", "." >>)
    /\ ~Includes(nameOut, << "/" >>)
    /\ ~Includes(nameOut, << "\\" >>)

====
